---- MODULE Spec2Model ----
(***************************************************************************)
(* Conversation-to-document export pipeline of chatgpt-exporter:           *)
(* image extraction, concurrent image processing by the active strategy,   *)
(* message filtering and rendering with a running image index, the single  *)
(* export download and the batch export with file-name de-duplication.     *)
(***************************************************************************)
EXTENDS Integers, Sequences, FiniteSets, TLC

(* ---------------------------------------------------------------------- *)
(* Bounds                                                                  *)
(* ---------------------------------------------------------------------- *)
MaxNodes == 2

MaxBatch == 3

MaxImages == 3

MaxText == 2

MaxClock == 2

(* ---------------------------------------------------------------------- *)
(* Values                                                                  *)
(* ---------------------------------------------------------------------- *)
Strategies == {"embed_base64", "text_marker", "separate_files"}

Formats == {"markdown", "html"}

\* A locator (image_url / asset_pointer).  ext is what follows the last dot.
Url(name, ext) == [name |-> name, ext |-> ext]

\* The key is absent from the object (JavaScript undefined).
UndefinedUrl == Url("undefined", "")

\* The key is present and holds the empty string.
EmptyUrl == Url("", "")

\* The key is present and holds null.
NullUrl == Url("null", "")

\* if (x) on a locator
Truthy(u) == u # UndefinedUrl /\ u # EmptyUrl /\ u # NullUrl

\* 'asset_pointer' in part
HasKey(u) == u # UndefinedUrl

\* One entry of metadata.aggregate_result.messages, or one part of
\* content.parts.  tag is message_type resp. content_type ("string" for a
\* part that is a plain string); ref is image_url resp. asset_pointer.
Item(tag, ref) == [tag |-> tag, ref |-> ref]

\* author.name, a sequence of pieces of text; <<>> when the author has no
\* name.  The tool of the messages below is python.
AuthorName(role) == IF role = "tool" THEN << "python" >> ELSE <<>>

\* One conversation node.  hasList: aggregate_result.messages (for
\* execution_output) resp. content.parts (for multimodal_text) exists.
\* create_time is 0 when the message has none.
Node(hasMessage, hasContent, role, recipient, ctype, hasList, items) ==
    [hasMessage |-> hasMessage, hasContent |-> hasContent, role |-> role,
     recipient |-> recipient, content_type |-> ctype, hasList |-> hasList,
     items |-> items, name |-> AuthorName(role),
     create_time |-> IF hasMessage THEN 1 ELSE 0]

Msg(role, recipient, ctype, hasList, items) ==
    Node(TRUE, TRUE, role, recipient, ctype, hasList, items)

\* The messages conversations are built from.
MessagePool ==
    { Node(FALSE, FALSE, "", "", "", FALSE, <<>>),
      Node(TRUE, FALSE, "user", "all", "", FALSE, <<>>),
      Msg("user", "all", "text", FALSE, <<>>),
      Msg("tool", "all", "code", FALSE, <<>>),
      Msg("tool", "all", "execution_output", TRUE,
          << Item("log", UndefinedUrl) >>),
      Msg("tool", "all", "execution_output", TRUE,
          << Item("image", Url("a", "png")), Item("image", Url("b", "jpg")) >>),
      Msg("tool", "all", "execution_output", TRUE,
          << Item("image", UndefinedUrl), Item("image", Url("c", "png")) >>),
      Msg("tool", "all", "multimodal_text", TRUE,
          << Item("image_asset_pointer", Url("d", "png")) >>),
      Msg("user", "all", "multimodal_text", TRUE,
          << Item("string", UndefinedUrl),
             Item("image_asset_pointer", EmptyUrl),
             Item("image_asset_pointer", Url("e", "png")) >>),
      Msg("assistant", "dalle", "multimodal_text", TRUE,
          << Item("image_asset_pointer", Url("f", "png")) >>),
      Msg("user", "all", "multimodal_text", TRUE,
          << Item("image_asset_pointer", NullUrl) >>) }

Conversations == UNION { [1..n -> MessagePool] : n \in 0..MaxNodes }

(* ---------------------------------------------------------------------- *)
(* Image extraction                                                        *)
(* ---------------------------------------------------------------------- *)
\* A conversation id, a UUID of 36 characters: its first 12 characters and
\* the rest.
Uuid(head, tail) == [head |-> head, tail |-> tail]

\* conversation.id of the conversation being exported.
ConversationId == Uuid("6734a1b2-c3d", "4-e5f6")

\* An ImageContext: role "" stands for a context without author.
Context(conversationId, messageId, imageIndex, url, ctype, role, name, timestamp) ==
    [conversationId |-> conversationId, messageId |-> messageId,
     imageIndex |-> imageIndex, originalUrl |-> url, contentType |-> ctype,
     role |-> role, name |-> name, timestamp |-> timestamp]

\* The ImageContext built for the k-th image (k from 0) pushed for the
\* message of node n.
ImageContext(node, n, k, url, ctype) ==
    Context(ConversationId, n, k, url, ctype, node.role, node.name,
            node.create_time)

ExtractedCountingFromOne(sel, node, n, ctype) ==
    [k \in 1..Len(sel) |->
        [url |-> sel[k].ref,
         context |-> ImageContext(node, n, k, sel[k].ref, ctype)]]

Extracted(sel, node, n, ctype) ==
    [k \in 1..Len(sel) |->
        [url |-> sel[k].ref,
         context |-> ImageContext(node, n, k - 1, sel[k].ref, ctype)]]

\* Body of the forEach callback of the Markdown extractor for node n.
extractNodeMarkdown(node, n) ==
    IF ~node.hasMessage \/ ~node.hasContent THEN <<>>
    ELSE IF node.content_type = "execution_output" /\ node.hasList
    THEN Extracted(SelectSeq(node.items,
                       LAMBDA m : m.tag = "image" /\ Truthy(m.ref)),
                   node, n, "image_url")
    ELSE IF node.content_type = "multimodal_text" /\ node.hasList
    THEN Extracted(SelectSeq(node.items,
                       LAMBDA p : p.tag = "image_asset_pointer" /\ Truthy(p.ref)),
                   node, n, "multimodal_text")
    ELSE <<>>

\* Body of the forEach callback of the HTML extractor for node n.
extractNodeHtml(node, n) ==
    IF ~node.hasMessage \/ ~node.hasContent THEN <<>>
    ELSE IF node.content_type = "execution_output" /\ node.hasList
    THEN Extracted(SelectSeq(node.items,
                       LAMBDA m : m.tag = "image" /\ Truthy(m.ref)),
                   node, n, "image_url")
    ELSE IF node.content_type = "multimodal_text" /\ node.hasList
    THEN Extracted(SelectSeq(node.items,
                       LAMBDA p : p.tag # "string" /\ HasKey(p.ref)
                                  /\ p.tag = "image_asset_pointer"),
                   node, n, "multimodal_text")
    ELSE <<>>

RECURSIVE extractMarkdownUpTo(_, _)
extractMarkdownUpTo(c, n) ==
    IF n = 0 THEN <<>>
    ELSE extractMarkdownUpTo(c, n - 1) \o extractNodeMarkdown(c[n], n)

RECURSIVE extractHtmlUpTo(_, _)
extractHtmlUpTo(c, n) ==
    IF n = 0 THEN <<>>
    ELSE extractHtmlUpTo(c, n - 1) \o extractNodeHtml(c[n], n)

extractImagesFromConversation(c) == extractMarkdownUpTo(c, Len(c))

extractImagesFromConversationHtml(c) == extractHtmlUpTo(c, Len(c))

\* The extractor a conversion of the given format calls.
ExtractFor(fmt, c) ==
    IF fmt = "markdown" THEN extractImagesFromConversation(c)
    ELSE extractImagesFromConversationHtml(c)

ExtractUpToFor(fmt, c, n) ==
    IF fmt = "markdown" THEN extractMarkdownUpTo(c, n)
    ELSE extractHtmlUpTo(c, n)

(* ---------------------------------------------------------------------- *)
(* Image strategies                                                        *)
(* ---------------------------------------------------------------------- *)
NoFileName == [prefix |-> <<>>, index |-> -1, ext |-> ""]

\* ProcessedImage.content: a data URI, a marker text or a relative path.
Content(kind, text, url, mime, file) ==
    [kind |-> kind, text |-> text, url |-> url, mime |-> mime, file |-> file]

TextContent(text) == Content("text", text, UndefinedUrl, "", NoFileName)

FailureMarker == TextContent("[Image Processing Failed]")

DefaultMarker == TextContent("[Image Omitted]")

\* if (processedImage.content): a non-empty string
ContentTruthy(c) == ~(c.kind = "text" /\ c.text = "")

getMimeType(url) ==
    CASE url.ext \in {"jpg", "jpeg"} -> "image/jpeg"
      [] url.ext = "png" -> "image/png"
      [] url.ext = "gif" -> "image/gif"
      [] url.ext = "webp" -> "image/webp"
      [] url.ext = "svg" -> "image/svg+xml"
      [] OTHER -> "image/png"

\* dataUrlOrUrl.startsWith(...) on a value that is not a string
getMimeTypeThrows(url) == url \in {UndefinedUrl, NullUrl}

\* An id: the text of a hash id, the clock and the random number of an
\* error id.
Id(kind, text, now, random) ==
    [kind |-> kind, text |-> text, now |-> now, random |-> random]

\* `${conversationId}-${messageId}-${imageIndex}-${timestamp}` with
\* timestamp = context.timestamp || Date.now()
IdTemplate(context, now) ==
    << context.conversationId, context.messageId, context.imageIndex,
       IF context.timestamp # 0 THEN context.timestamp ELSE now >>

\* btoa(...).replace(/[^a-zA-Z0-9]/g, '').substring(0, 16): 16 characters
\* of base64 text encode the first 12 characters of the template, and the
\* base64 text of the characters of a UUID has no + or / to strip; the 36
\* characters of the conversation id fill them.
Substring16(template) == template[1].head

generateImageIdAt(context, now) ==
    Id("hash", Substring16(IdTemplate(context, now)), 0, 0)

\* The value does not depend on the clock.
generateImageId(context) == generateImageIdAt(context, 0)

\* error-${Date.now()}-${Math.random()...}
ErrorIdAt(now, random) == Id("error", "", now, random)

\* The error id of an export, which reads no id of a failed image.
ErrorId == ErrorIdAt(0, 0)

\* mimeType.split('/')[1] || 'png'
Extension(mime) ==
    CASE mime = "image/jpeg" -> "jpeg"
      [] mime = "image/png" -> "png"
      [] mime = "image/gif" -> "gif"
      [] mime = "image/webp" -> "webp"
      [] mime = "image/svg+xml" -> "svg+xml"
      [] OTHER -> "png"

\* A piece of text in lower case.
LowerCase(piece) ==
    CASE piece = "My" -> "my"
      [] piece = "Tool" -> "tool"
      [] OTHER -> piece

toLowerCase(text) == [i \in DOMAIN text |-> LowerCase(text[i])]

\* \s
IsSpace(piece) == piece \in {" ", "\t"}

\* [<>:"/\\|?*]
IsReserved(piece) == piece \in {"<", ">", ":", "\"", "/", "\\", "|", "?", "*"}

RECURSIVE DropSpaces(_)
DropSpaces(text) ==
    IF text # <<>> /\ IsSpace(Head(text)) THEN DropSpaces(Tail(text)) ELSE text

\* .replace(/[<>:"/\\|?*]/g, '_').replace(/\s+/g, '-')
RECURSIVE ReplaceReservedAndSpaces(_)
ReplaceReservedAndSpaces(text) ==
    IF text = <<>> THEN <<>>
    ELSE IF IsSpace(Head(text))
    THEN << "-" >> \o ReplaceReservedAndSpaces(DropSpaces(text))
    ELSE << IF IsReserved(Head(text)) THEN "_" ELSE Head(text) >>
         \o ReplaceReservedAndSpaces(Tail(text))

\* A file name `${prefix}-${paddedIndex}.${extension}`; paddedIndex is the
\* index padded with zeros to three digits, the index itself from 1000 on.
ImageFileName(prefix, index, ext) ==
    [prefix |-> prefix, index |-> index, ext |-> ext]

\* The replacements leave the hyphen, the digits, the dot and the
\* extension of the name as they are.
sanitizeFileName(fileName) ==
    ImageFileName(toLowerCase(ReplaceReservedAndSpaces(fileName.prefix)),
                  fileName.index, fileName.ext)

generateImageFileName(context, extension) ==
    ImageFileName(
        CASE context.role = "" -> << "image" >>
          [] context.role = "assistant" -> << "chatgpt-response" >>
          [] context.role = "user" -> << "user-upload" >>
          [] context.role = "tool" ->
                IF context.name # <<>>
                THEN << "tool-" >> \o toLowerCase(context.name)
                ELSE << "tool-result" >>
          [] OTHER -> << context.role >>,
        context.imageIndex, extension)

\* images/<fileName>
createImageRelativePath(fileName) ==
    Content("path", "", UndefinedUrl, "", fileName)

ProcessedImage(id, content, originalData, fileName, url, mime) ==
    [id |-> id, content |-> content, originalData |-> originalData,
     fileName |-> fileName,
     metadata |-> [originalUrl |-> url, mimeType |-> mime]]

\* The slot of a promise that has not settled.
Pending ==
    ProcessedImage(Id("pending", "", 0, 0),
                   TextContent(""), UndefinedUrl, NoFileName, UndefinedUrl, "")

\* The catch block of a strategy's processImage.
FailedImageEmpty(context, url) ==
    ProcessedImage(generateImageId(context), TextContent(""), UndefinedUrl,
                   NoFileName, url, getMimeType(url))

FailedImage(context, url) ==
    ProcessedImage(generateImageId(context), FailureMarker, UndefinedUrl,
                   NoFileName, url, getMimeType(url))

EmbedBase64ProcessImage(url, context, ok) ==
    IF ok
    THEN ProcessedImage(generateImageId(context),
                        Content("data_uri", "", url, getMimeType(url), NoFileName),
                        url, NoFileName, url, getMimeType(url))
    ELSE FailedImage(context, url)

\* ScriptStorage value of KEY_IMAGE_CUSTOM_MARKER, "" if none is stored.
VARIABLE customMarker

CustomMarkers == {"", "[custom marker]"}

\* ScriptStorage.get(KEY_IMAGE_CUSTOM_MARKER) || '[Image Omitted]'
getCustomMarkerText ==
    IF customMarker = "" THEN DefaultMarker ELSE TextContent(customMarker)

TextMarkerProcessImageAsFetched(url, context, ok) ==
    IF ok
    THEN ProcessedImage(generateImageId(context), getCustomMarkerText,
                        UndefinedUrl, NoFileName, url, getMimeType(url))
    ELSE FailedImage(context, url)

TextMarkerProcessImage(url, context, ok) ==
    ProcessedImage(generateImageId(context), getCustomMarkerText, UndefinedUrl,
                   NoFileName, url, getMimeType(url))

SeparateFilesProcessImage(url, context, ok) ==
    IF ok
    THEN LET fileName == sanitizeFileName(
                 generateImageFileName(context, Extension(getMimeType(url))))
         IN ProcessedImage(generateImageId(context),
                           createImageRelativePath(fileName),
                           url, fileName, url, getMimeType(url))
    ELSE FailedImage(context, url)

\* processor.processImage of the processor createImageProcessor builds for
\* the strategy; ok: the image loads and decodes.
processImage(strategy, url, context, ok) ==
    CASE strategy = "embed_base64" -> EmbedBase64ProcessImage(url, context, ok)
      [] strategy = "text_marker" -> TextMarkerProcessImage(url, context, ok)
      [] strategy = "separate_files" -> SeparateFilesProcessImage(url, context, ok)

\* The '' getBase64FromImg returns for a canvas without 2d context, where
\* the data of a loaded image is written as its url.
NoData == Url("", "data")

\* if (image.originalData)
HasData(image) == image.originalData # UndefinedUrl /\ image.originalData # NoData

\* processImage when the image loads and the canvas gives no 2d context:
\* getBase64FromImg returns '' and the strategy goes on with it.  The data
\* URI of embed_base64 ends in 'undefined', separate_files names the file
\* and has no data for it.
processImageBlank(strategy, url, context) ==
    CASE strategy = "embed_base64" ->
            ProcessedImage(generateImageId(context),
                           Content("data_uri", "undefined", NoData,
                                   getMimeType(url), NoFileName),
                           NoData, NoFileName, url, getMimeType(url))
      [] strategy = "text_marker" -> TextMarkerProcessImage(url, context, TRUE)
      [] strategy = "separate_files" ->
            LET fileName == sanitizeFileName(
                    generateImageFileName(context, Extension(getMimeType(url))))
            IN ProcessedImage(generateImageId(context),
                              createImageRelativePath(fileName),
                              NoData, fileName, url, getMimeType(url))

\* The strategy fetches the image (the call reaches getBase64FromImageUrl).
Fetches(strategy, url) ==
    strategy \in {"embed_base64", "separate_files"} /\ ~getMimeTypeThrows(url)

\* The callback processConversationImages maps over the images, called at
\* time now with Math.random() returning random.
processOneAt(strategy, image, ok, now, random) ==
    IF getMimeTypeThrows(image.url)
    THEN ProcessedImage(ErrorIdAt(now, random), FailureMarker, UndefinedUrl,
                        NoFileName, image.url, "image/png")
    ELSE processImage(strategy, image.url, image.context, ok)

processOne(strategy, image, ok) == processOneAt(strategy, image, ok, 0, 0)

\* The same callback for an image that loads into a canvas without context.
processOneBlank(strategy, image) ==
    IF getMimeTypeThrows(image.url)
    THEN processOne(strategy, image, TRUE)
    ELSE processImageBlank(strategy, image.url, image.context)

\* Promise.all: the value of the promise at position i goes to position i.
PlaceAtFirstFree(slots, i, value) ==
    LET free == CHOOSE j \in DOMAIN slots :
                    slots[j] = Pending
                    /\ \A l \in DOMAIN slots : slots[l] = Pending => j <= l
    IN [slots EXCEPT ![free] = value]

Place(slots, i, value) == [slots EXCEPT ![i] = value]

\* What Promise.all(images.map(callback)) resolves to when exactly the
\* images at the positions in bad fail to load or decode.
processAll(strategy, imageList, bad) ==
    [i \in 1..Len(imageList) |-> processOne(strategy, imageList[i], i \notin bad)]

\* The same when the images at the positions in blank load into a canvas
\* without context.
processAllBlank(strategy, imageList, bad, blank) ==
    [i \in 1..Len(imageList) |->
        IF i \in blank THEN processOneBlank(strategy, imageList[i])
        ELSE processOne(strategy, imageList[i], i \notin bad)]

\* The positions whose processing fetches the image.
Fetching(strategy, imageList) ==
    { i \in 1..Len(imageList) : Fetches(strategy, imageList[i].url) }

generateContentFromImages(strategy, processed) ==
    IF strategy = "separate_files"
    THEN LET withFile == SelectSeq(processed,
                 LAMBDA image : HasData(image)
                                /\ image.fileName # NoFileName)
         IN [k \in 1..Len(withFile) |->
                [path |-> withFile[k].content,
                 mimeType |-> withFile[k].metadata.mimeType]]
    ELSE <<>>

NoMetadata == [present |-> FALSE, totalImages |-> 0, images |-> <<>>]

generateExportMetadata(processed) ==
    LET withName == SelectSeq(processed,
                        LAMBDA image : image.fileName # NoFileName)
    IN [present |-> TRUE, totalImages |-> Len(processed),
        images |-> [k \in 1..Len(withName) |-> withName[k].fileName]]

(* ---------------------------------------------------------------------- *)
(* Message filter, image count and content renderer                        *)
(* ---------------------------------------------------------------------- *)
SomeImageMessage(node) ==
    node.hasList /\ \E j \in DOMAIN node.items : node.items[j].tag = "image"

\* The three `continue` conditions at the head of the loop body of
\* conversationToMarkdown.
SkipsMessageNoMultimodal(node) ==
    \/ ~node.hasMessage \/ ~node.hasContent
    \/ node.recipient # "all"
    \/ /\ node.role = "tool"
       /\ ~(node.content_type = "execution_output" /\ SomeImageMessage(node))

SkipsMessage(node) ==
    \/ ~node.hasMessage \/ ~node.hasContent
    \/ node.recipient # "all"
    \/ /\ node.role = "tool"
       /\ node.content_type # "multimodal_text"
       /\ ~(node.content_type = "execution_output" /\ SomeImageMessage(node))

\* The same conditions in conversationToHtml.
SkipsMessageHtml(node) ==
    \/ ~node.hasMessage \/ ~node.hasContent
    \/ node.recipient # "all"
    \/ /\ node.role = "tool"
       /\ node.content_type # "multimodal_text"
       /\ ~(node.content_type = "execution_output" /\ SomeImageMessage(node))

SkipsFor(fmt, node) ==
    IF fmt = "markdown" THEN SkipsMessage(node) ELSE SkipsMessageHtml(node)

countImagesInMessage(node) ==
    IF ~node.hasContent THEN 0
    ELSE IF node.content_type = "execution_output" /\ node.hasList
    THEN Len(SelectSeq(node.items, LAMBDA m : m.tag = "image"))
    ELSE IF node.content_type = "multimodal_text" /\ node.hasList
    THEN Len(SelectSeq(node.items, LAMBDA p : p.tag = "image_asset_pointer"))
    ELSE 0

\* One piece of a rendered fragment.  index is the global image index of an
\* image reference or of a [IMAGE_<index>] token, -1 for other pieces.
Token(t, index, content) == [t |-> t, index |-> index, content |-> content]

Piece(t) == Token(t, -1, TextContent(""))

\* processedImages[globalIndex] (0-based) resolved to ![image](content) /
\* <img src="content" />, or to [IMAGE_<globalIndex>].
ResolveImageShifted(processed, globalIndex) ==
    IF globalIndex + 1 <= Len(processed)
       /\ ContentTruthy(processed[globalIndex + 1].content)
    THEN Token("image", globalIndex, processed[globalIndex + 1].content)
    ELSE Token("placeholder", globalIndex + 1, TextContent(""))

ResolveImage(processed, globalIndex) ==
    IF globalIndex + 1 <= Len(processed)
       /\ ContentTruthy(processed[globalIndex + 1].content)
    THEN Token("image", globalIndex, processed[globalIndex + 1].content)
    ELSE Token("placeholder", globalIndex, TextContent(""))

\* imageMessages.map((_, index) => ...)
ExecutionOutputImages(node, processed, imageStartIndex) ==
    LET imageMessages == SelectSeq(node.items, LAMBDA m : m.tag = "image")
    IN [k \in 1..Len(imageMessages) |->
            ResolveImage(processed, imageStartIndex + (k - 1))]

\* content.parts.slice(0, partIndex).filter(image_asset_pointer).length
imageIndexInMessage(parts, partIndex) ==
    Len(SelectSeq(SubSeq(parts, 1, partIndex - 1),
                  LAMBDA p : p.tag = "image_asset_pointer"))

MultimodalPart(parts, partIndex, processed, imageStartIndex) ==
    LET part == parts[partIndex]
    IN CASE part.tag = "string" -> << Piece("text") >>
         [] part.tag = "image_asset_pointer" ->
              << ResolveImage(processed,
                     imageStartIndex + imageIndexInMessage(parts, partIndex)) >>
         [] part.tag = "audio_transcription" -> << Piece("audio") >>
         [] part.tag \in {"audio_asset_pointer",
                          "real_time_user_audio_video_asset_pointer"} -> <<>>
         [] OTHER -> << Piece("unsupported") >>

RECURSIVE MultimodalParts(_, _, _, _)
MultimodalParts(parts, upTo, processed, imageStartIndex) ==
    IF upTo = 0 THEN <<>>
    ELSE MultimodalParts(parts, upTo - 1, processed, imageStartIndex)
         \o MultimodalPart(parts, upTo, processed, imageStartIndex)

\* The fragment of one message, as the sequence of its pieces.
transformContent(node, processed, imageStartIndex) ==
    CASE node.content_type = "text" -> << Piece("text") >>
      [] node.content_type = "code" -> << Piece("code") >>
      [] node.content_type = "execution_output" ->
            IF node.hasList
            THEN << Piece("result") >>
                 \o ExecutionOutputImages(node, processed, imageStartIndex)
            ELSE << Piece("result") >>
      [] node.content_type = "tether_quote" -> << Piece("quote") >>
      [] node.content_type = "tether_browsing_code" -> << Piece("text") >>
      [] node.content_type = "tether_browsing_display" -> << Piece("links") >>
      [] node.content_type = "multimodal_text" ->
            IF node.hasList
            THEN MultimodalParts(node.items, Len(node.items), processed,
                                 imageStartIndex)
            ELSE <<>>
      [] OTHER -> << Piece("unsupported") >>

\* The HTML half: the same dispatch with <img src="..." /> for an image.
countImagesInMessageHtml(node) ==
    IF ~node.hasContent THEN 0
    ELSE IF node.content_type = "execution_output" /\ node.hasList
    THEN Len(SelectSeq(node.items, LAMBDA m : m.tag = "image"))
    ELSE IF node.content_type = "multimodal_text" /\ node.hasList
    THEN Len(SelectSeq(node.items, LAMBDA p : p.tag = "image_asset_pointer"))
    ELSE 0

ResolveImageHtml(processed, globalIndex) ==
    IF globalIndex + 1 <= Len(processed)
       /\ ContentTruthy(processed[globalIndex + 1].content)
    THEN Token("img", globalIndex, processed[globalIndex + 1].content)
    ELSE Token("placeholder", globalIndex, TextContent(""))

ExecutionOutputImagesHtml(node, processed, imageStartIndex) ==
    LET imageMessages == SelectSeq(node.items, LAMBDA m : m.tag = "image")
    IN [k \in 1..Len(imageMessages) |->
            ResolveImageHtml(processed, imageStartIndex + (k - 1))]

imageIndexInMessageHtml(parts, partIndex) ==
    Len(SelectSeq(SubSeq(parts, 1, partIndex - 1),
                  LAMBDA p : p.tag # "string" /\ p.tag = "image_asset_pointer"))

MultimodalPartHtml(parts, partIndex, processed, imageStartIndex) ==
    LET part == parts[partIndex]
    IN CASE part.tag = "string" -> << Piece("text") >>
         [] part.tag = "image_asset_pointer" ->
              << ResolveImageHtml(processed,
                     imageStartIndex + imageIndexInMessageHtml(parts, partIndex)) >>
         [] part.tag = "audio_transcription" -> << Piece("audio") >>
         [] part.tag \in {"audio_asset_pointer",
                          "real_time_user_audio_video_asset_pointer"} -> <<>>
         [] OTHER -> << Piece("unsupported") >>

RECURSIVE MultimodalPartsHtml(_, _, _, _)
MultimodalPartsHtml(parts, upTo, processed, imageStartIndex) ==
    IF upTo = 0 THEN <<>>
    ELSE MultimodalPartsHtml(parts, upTo - 1, processed, imageStartIndex)
         \o MultimodalPartHtml(parts, upTo, processed, imageStartIndex)

transformContentHtml(node, processed, imageStartIndex) ==
    CASE node.content_type = "text" -> << Piece("text") >>
      [] node.content_type = "code" -> << Piece("code") >>
      [] node.content_type = "execution_output" ->
            IF node.hasList
            THEN << Piece("result") >>
                 \o ExecutionOutputImagesHtml(node, processed, imageStartIndex)
            ELSE << Piece("result") >>
      [] node.content_type = "tether_quote" -> << Piece("quote") >>
      [] node.content_type = "tether_browsing_code" -> << Piece("text") >>
      [] node.content_type = "tether_browsing_display" -> << Piece("links") >>
      [] node.content_type = "multimodal_text" ->
            IF node.hasList
            THEN MultimodalPartsHtml(node.items, Len(node.items), processed,
                                     imageStartIndex)
            ELSE <<>>
      [] OTHER -> << Piece("unsupported") >>

TransformFor(fmt, node, processed, imageStartIndex) ==
    IF fmt = "markdown" THEN transformContent(node, processed, imageStartIndex)
    ELSE transformContentHtml(node, processed, imageStartIndex)

CountFor(fmt, node) ==
    IF fmt = "markdown" THEN countImagesInMessage(node)
    ELSE countImagesInMessageHtml(node)

(* ---------------------------------------------------------------------- *)
(* State                                                                   *)
(* ---------------------------------------------------------------------- *)
VARIABLES
    \* single-conversation export (exportToMarkdown / exportToHtml)
    strategySetting,     \* ScriptStorage value of KEY_IMAGE_HANDLING_STRATEGY
    globalImageHandler,  \* strategy of the global handler, "null" before any
    pc,                  \* position of the export
    format,              \* "markdown" or "html"
    conversation,        \* conversationNodes of the fetched conversation
    imageHandlingStrategy, \* the local the export read the setting into
    imageHandler,        \* the handler the conversion took from the global
    images,              \* result of the extractor
    failed,              \* positions whose fetch or decode failed
    processedImages,     \* as assigned in the conversion
    exportFiles,
    imageMetadata,
    imageIndex,          \* running image index after the render loop
    rendered,            \* messages pushed by the render loop
    downloads,           \* downloadFile calls
    alerts,              \* alert calls
    exportResult,        \* what the export returned, "pending" before
    \* one call of DefaultImageHandler.processConversationImages
    hpc,                 \* position of the call
    currentStrategy,     \* this.currentStrategy
    hImages,             \* the images argument
    slots,               \* Promise.all: settled values by position
    hFailed,             \* positions whose fetch or decode failed
    hBlank,              \* positions whose canvas had no 2d context
    overtaken,           \* a promise settled before one at a lower position
    hResult,             \* the value the call resolves to
    \* batch export (exportAllToMarkdown / exportAllToHtml)
    bpc, bFormat, bConversations, bCursor, filenameMap, bStored, zip,
    bDownloads,
    bStrategy,           \* the local the batch export read the setting into
    \* one call of transformContent with the postProcess of its message
    tpc,                 \* position of the call
    tFormat,             \* "markdown" or "html"
    tMessage,            \* the message
    tText,               \* the text of its content
    tCitations,          \* metadata.citations of the message
    tRewrites,           \* the round trip rewrites unprotected math
    tCalls,              \* the postProcess calls made: input, steps, output
    \* one image handed twice to the callback of processConversationImages
    spc,                 \* position
    sImage,              \* the url and the ImageContext
    sCalls,              \* the two calls: strategy, outcome, clock, result
    \* a DefaultImageHandler object, with currentStrategy above
    processor,           \* this.processor, by its getStrategyName()
    hCalls,              \* the setStrategy calls made: argument, threw
    \* one call of waitForReactHydration
    wpc,                 \* position: the timer that is pending
    pageLoaded,          \* the page has loaded
    maxWaitTime,         \* the argument, in units of 100 ms
    checkCount,          \* checkCount
    elapsed,             \* Date.now() - startTime, in units of 100 ms
    wSeen,               \* the last check saw isHydrated && reactActive
    wInvoked,            \* the invocations of the callback
    \* one call of safeInject
    ipc,                 \* position
    retryCount,          \* the argument
    attempts,            \* attempts
    iOutcomes,           \* what each attempt found
    iResolved            \* the values resolve was called with

exportVars ==
    << strategySetting, globalImageHandler, pc, format, conversation,
       imageHandlingStrategy, imageHandler, images, failed, processedImages,
       exportFiles, imageMetadata, imageIndex, rendered, downloads >>

handlerVars ==
    << hpc, currentStrategy, hImages, slots, hFailed, hBlank, overtaken,
       hResult >>

pageVars == << alerts, exportResult >>

batchVars ==
    << bpc, bFormat, bConversations, bCursor, filenameMap, bStored, zip,
       bDownloads, bStrategy >>

textVars == << tpc, tFormat, tMessage, tText, tCitations, tRewrites, tCalls >>

strategyVars == << spc, sImage, sCalls >>

objectVars == << processor, hCalls >>

hydrationVars ==
    << wpc, pageLoaded, maxWaitTime, checkCount, elapsed, wSeen, wInvoked >>

injectVars == << ipc, retryCount, attempts, iOutcomes, iResolved >>

domVars == << hydrationVars, injectVars >>

vars ==
    << exportVars, pageVars, handlerVars, batchVars, textVars, customMarker,
       strategyVars, objectVars, domVars >>

NoResult == [processedImages |-> <<>>, files |-> <<>>, metadata |-> NoMetadata]

ExportIdle ==
    /\ globalImageHandler = "null"
    /\ pc = "idle"
    /\ format = "markdown"
    /\ conversation = <<>>
    /\ imageHandlingStrategy = ""
    /\ imageHandler = "null"
    /\ images = <<>>
    /\ failed = {}
    /\ processedImages = <<>>
    /\ exportFiles = <<>>
    /\ imageMetadata = NoMetadata
    /\ imageIndex = 0
    /\ rendered = <<>>
    /\ downloads = <<>>
    /\ alerts = 0
    /\ exportResult = "pending"

HandlerIdle ==
    /\ hpc = "idle"
    /\ hImages = <<>>
    /\ slots = <<>>
    /\ hFailed = {}
    /\ hBlank = {}
    /\ overtaken = FALSE
    /\ hResult = NoResult

BatchIdle ==
    /\ bpc = "idle"
    /\ bFormat = "markdown"
    /\ bConversations = <<>>
    /\ bCursor = 1
    /\ filenameMap = <<>>
    /\ bStored = <<>>
    /\ zip = {}
    /\ bDownloads = <<>>
    /\ bStrategy = ""

TextIdle ==
    /\ tpc = "idle"
    /\ tFormat = "markdown"
    /\ tMessage = Node(FALSE, FALSE, "", "", "", FALSE, <<>>)
    /\ tText = <<>>
    /\ tCitations = <<>>
    /\ tRewrites = FALSE
    /\ tCalls = <<>>

StrategyIdle ==
    /\ spc = "idle"
    /\ sImage = [url |-> UndefinedUrl,
                 context |-> Context(ConversationId, 0, 0, UndefinedUrl, "",
                                     "", <<>>, 0)]
    /\ sCalls = <<>>

\* new DefaultImageHandler(strategySetting): the processor is the one
\* createImageProcessor builds for the strategy.
ObjectIdle ==
    /\ processor = strategySetting
    /\ hCalls = <<>>

HydrationIdle ==
    /\ wpc = "idle"
    /\ pageLoaded = FALSE
    /\ maxWaitTime = 0
    /\ checkCount = 0
    /\ elapsed = 0
    /\ wSeen = FALSE
    /\ wInvoked = <<>>

InjectIdle ==
    /\ ipc = "idle"
    /\ retryCount = 0
    /\ attempts = 0
    /\ iOutcomes = <<>>
    /\ iResolved = <<>>

Init ==
    /\ strategySetting \in Strategies
    /\ currentStrategy = strategySetting
    /\ ObjectIdle
    /\ HydrationIdle
    /\ InjectIdle
    /\ customMarker \in IF strategySetting = "text_marker" THEN CustomMarkers
                        ELSE {""}
    /\ ExportIdle
    /\ HandlerIdle
    /\ BatchIdle
    /\ TextIdle
    /\ StrategyIdle

(* ---------------------------------------------------------------------- *)
(* The image coordinator                                                   *)
(* ---------------------------------------------------------------------- *)
\* The lists the extractors produce, up to MaxImages images.
ImageLists ==
    { list \in { ExtractFor(fmt, c) : fmt \in Formats, c \in Conversations } :
        Len(list) <= MaxImages }

\* The files and the metadata processConversationImages adds to the
\* processed images.
resultOfMetadataWithoutFiles(strategy, processed) ==
    LET files == generateContentFromImages(strategy, processed)
    IN [processedImages |-> processed,
        files |-> files,
        metadata |-> IF strategy = "separate_files"
                     THEN generateExportMetadata(processed)
                     ELSE NoMetadata]

resultOf(strategy, processed) ==
    LET files == generateContentFromImages(strategy, processed)
    IN [processedImages |-> processed,
        files |-> files,
        metadata |-> IF strategy = "separate_files" /\ Len(files) > 0
                     THEN generateExportMetadata(processed)
                     ELSE NoMetadata]

\* processConversationImages is called: one promise per image is started.
processConversationImages ==
    /\ hpc = "idle"
    /\ \E list \in ImageLists :
          /\ hImages' = list
          /\ slots' = [i \in 1..Len(list) |-> Pending]
    /\ hpc' = "awaiting"
    /\ UNCHANGED << currentStrategy, hFailed, hBlank, overtaken, hResult >>
    /\ UNCHANGED << exportVars, pageVars, batchVars, textVars,
                    customMarker, strategyVars, objectVars, domVars >>

\* The promise of image i settles; ok: the image loaded and decoded.
imageSettles(i, ok) ==
    /\ hpc = "awaiting"
    /\ i \in DOMAIN slots
    /\ slots[i] = Pending
    /\ slots' = Place(slots, i, processOne(currentStrategy, hImages[i], ok))
    /\ hFailed' = IF Fetches(currentStrategy, hImages[i].url) /\ ~ok
                  THEN hFailed \cup {i} ELSE hFailed
    /\ overtaken' = (overtaken \/ \E j \in 1..(i - 1) : slots[j] = Pending)
    /\ UNCHANGED << hpc, currentStrategy, hImages, hBlank, hResult >>
    /\ UNCHANGED << exportVars, pageVars, batchVars, textVars,
                    customMarker, strategyVars, objectVars, domVars >>

imageSettlesAny == \E i \in DOMAIN slots, ok \in BOOLEAN : imageSettles(i, ok)

\* The promise of image i settles: the image loaded, the canvas had no 2d
\* context and getBase64FromImg returned ''.
imageSettlesBlank(i) ==
    /\ hpc = "awaiting"
    /\ i \in DOMAIN slots
    /\ slots[i] = Pending
    /\ Fetches(currentStrategy, hImages[i].url)
    /\ slots' = Place(slots, i, processOneBlank(currentStrategy, hImages[i]))
    /\ hBlank' = hBlank \cup {i}
    /\ overtaken' = (overtaken \/ \E j \in 1..(i - 1) : slots[j] = Pending)
    /\ UNCHANGED << hpc, currentStrategy, hImages, hFailed, hResult >>
    /\ UNCHANGED << exportVars, pageVars, batchVars, textVars,
                    customMarker, strategyVars, objectVars, domVars >>

imageSettlesBlankAny == \E i \in DOMAIN slots : imageSettlesBlank(i)

\* Promise.all resolves; the call builds files and metadata and returns.
processConversationImagesReturns ==
    /\ hpc = "awaiting"
    /\ \A i \in DOMAIN slots : slots[i] # Pending
    /\ hResult' = resultOf(currentStrategy, slots)
    /\ hpc' = "returned"
    /\ UNCHANGED << currentStrategy, hImages, slots, hFailed, hBlank,
                    overtaken >>
    /\ UNCHANGED << exportVars, pageVars, batchVars, textVars,
                    customMarker, strategyVars, objectVars, domVars >>

NextImages ==
    \/ processConversationImages
    \/ imageSettlesAny
    \/ imageSettlesBlankAny
    \/ processConversationImagesReturns

SpecImages == Init /\ [][NextImages]_vars

\* One iteration of the loop over conversationNodes, from the running
\* image index and the messages pushed so far to the ones after it.
renderNode(fmt, node, n, processed, state) ==
    IF SkipsFor(fmt, node)
    THEN state
    ELSE [imageIndex |-> state.imageIndex + CountFor(fmt, node),
          content |-> Append(state.content,
              [node |-> n, imageStartIndex |-> state.imageIndex,
               fragment |-> TransformFor(fmt, node, processed,
                                         state.imageIndex)])]

\* The loop over the first n nodes.
RECURSIVE renderNodes(_, _, _, _)
renderNodes(fmt, c, n, processed) ==
    IF n = 0 THEN [imageIndex |-> 0, content |-> <<>>]
    ELSE renderNode(fmt, c[n], n, processed,
                    renderNodes(fmt, c, n - 1, processed))

(* ---------------------------------------------------------------------- *)
(* Single-conversation export                                              *)
(* ---------------------------------------------------------------------- *)
\* exportToMarkdown / exportToHtml when checkIfConversationStarted() is
\* false: the alert and `return false`.
exportRefusedInitializes(fmt) ==
    /\ pc = "idle"
    /\ format' = fmt
    /\ alerts' = alerts + 1
    /\ exportResult' = "false"
    /\ pc' = "refused"
    /\ globalImageHandler' = strategySetting
    /\ UNCHANGED << strategySetting, conversation, imageHandler,
                    imageHandlingStrategy, images, failed, processedImages,
                    exportFiles, imageMetadata, imageIndex, rendered,
                    downloads >>
    /\ UNCHANGED << handlerVars, batchVars, textVars,
                    customMarker, strategyVars, objectVars, domVars >>

exportRefused(fmt) ==
    /\ pc = "idle"
    /\ format' = fmt
    /\ alerts' = alerts + 1
    /\ exportResult' = "false"
    /\ pc' = "refused"
    /\ UNCHANGED << strategySetting, globalImageHandler, conversation,
                    imageHandler,
                    imageHandlingStrategy, images, failed, processedImages,
                    exportFiles, imageMetadata, imageIndex, rendered,
                    downloads >>
    /\ UNCHANGED << handlerVars, batchVars, textVars,
                    customMarker, strategyVars, objectVars, domVars >>

\* exportToMarkdown / exportToHtml when a conversation has been started, up
\* to the fetched conversation.
exportTo(fmt, c) ==
    /\ pc = "idle"
    /\ format' = fmt
    /\ conversation' = c
    /\ pc' = "fetched"
    /\ UNCHANGED << strategySetting, globalImageHandler, imageHandlingStrategy,
                    imageHandler, images, failed, processedImages, exportFiles,
                    imageMetadata, imageIndex, rendered, downloads >>
    /\ UNCHANGED << pageVars, handlerVars, batchVars, textVars,
                    customMarker, strategyVars, objectVars, domVars >>

exportToMarkdown ==
    \/ exportRefused("markdown")
    \/ \E c \in Conversations : exportTo("markdown", c)

exportToHtml ==
    \/ exportRefused("html")
    \/ \E c \in Conversations : exportTo("html", c)

\* The export reads the setting and replaces the global handler; the
\* conversion takes the global handler and extracts the images.  If there
\* are any it calls processConversationImages and awaits it; if there are
\* none it renders the messages and returns the document.
conversationStart ==
    /\ pc = "fetched"
    /\ imageHandlingStrategy' = strategySetting
    /\ globalImageHandler' = strategySetting
    /\ imageHandler' = strategySetting
    /\ images' = ExtractFor(format, conversation)
    /\ IF Len(images') > 0
       THEN /\ pc' = "awaiting"
            /\ UNCHANGED << rendered, imageIndex >>
       ELSE LET final == renderNodes(format, conversation, Len(conversation),
                                     processedImages)
            IN /\ rendered' = final.content
               /\ imageIndex' = final.imageIndex
               /\ pc' = "converted"
    /\ UNCHANGED << strategySetting, format, conversation, failed,
                    processedImages, exportFiles, imageMetadata, downloads >>
    /\ UNCHANGED << pageVars, handlerVars, batchVars, textVars,
                    customMarker, strategyVars, objectVars, domVars >>

\* processConversationImages resolves, the images at the positions in bad
\* having failed to load or decode; the conversion takes the three results,
\* renders the messages and returns the document.
conversationReturns ==
    /\ pc = "awaiting"
    /\ \E bad \in SUBSET Fetching(imageHandler, images) :
          LET result == resultOf(imageHandler,
                                 processAll(imageHandler, images, bad))
              final == renderNodes(format, conversation, Len(conversation),
                                   result.processedImages)
          IN /\ failed' = bad
             /\ processedImages' = result.processedImages
             /\ exportFiles' = result.files
             /\ imageMetadata' = result.metadata
             /\ rendered' = final.content
             /\ imageIndex' = final.imageIndex
    /\ pc' = "converted"
    /\ UNCHANGED << strategySetting, globalImageHandler, format, conversation,
                    imageHandlingStrategy, imageHandler, images, downloads >>
    /\ UNCHANGED << pageVars, handlerVars, batchVars, textVars,
                    customMarker, strategyVars, objectVars, domVars >>

ZipDownload(files, metadata) ==
    [kind |-> "zip", files |-> files, manifest |-> metadata]

DocumentDownload == [kind |-> "document", files |-> <<>>, manifest |-> NoMetadata]

\* The download an export makes once the conversion has returned.
DownloadOfAlwaysZip(strategy, files, metadata) ==
    IF strategy = "separate_files"
    THEN ZipDownload(files, metadata)
    ELSE DocumentDownload

DownloadOf(strategy, files, metadata) ==
    IF strategy = "separate_files" /\ Len(files) > 0
    THEN ZipDownload(files, metadata)
    ELSE DocumentDownload

\* The export downloads the archive or the document and returns true.
download ==
    /\ pc = "converted"
    /\ downloads' = Append(downloads,
            DownloadOf(imageHandlingStrategy, exportFiles, imageMetadata))
    /\ pc' = "done"
    /\ exportResult' = "true"
    /\ UNCHANGED << strategySetting, globalImageHandler, format, conversation,
                    imageHandlingStrategy, imageHandler, images, failed,
                    processedImages, exportFiles, imageMetadata,
                    imageIndex, rendered, alerts >>
    /\ UNCHANGED << handlerVars, batchVars, textVars,
                    customMarker, strategyVars, objectVars, domVars >>

(* ---------------------------------------------------------------------- *)
(* Batch export                                                            *)
(* ---------------------------------------------------------------------- *)
\* A file name: title, the " (n)" counters that follow it, the extension.
FileName(title, counters, ext) ==
    [title |-> title, counters |-> counters, ext |-> ext]

\* What getFileNameWithFormat returns for the conversations of a batch,
\* without the extension: "A", "A (1)" and "B".
ComputedNames ==
    { [title |-> "A", counters |-> <<>>],
      [title |-> "A", counters |-> << 1 >>],
      [title |-> "B", counters |-> <<>>] }

\* A conversation of a batch: the name computed for it, whether its
\* conversion raises, and its conversationNodes.
BatchConversations == [name : ComputedNames, raises : BOOLEAN, nodes : {<<>>}]

Batches == UNION { [1..n -> BatchConversations] : n \in 0..MaxBatch }

getFileNameWithFormat(conv, ext) ==
    FileName(conv.name.title, conv.name.counters, ext)

MapSet(map, key, value) ==
    [k \in DOMAIN map \cup {key} |-> IF k = key THEN value ELSE map[k]]

\* `${fileName.slice(0, -3)} (${count}).md`
WithCounter(fileName, count) ==
    FileName(fileName.title, Append(fileName.counters, count), fileName.ext)

\* The if/else on filenameMap.has(fileName) of exportAllToMarkdown: the new
\* map and the name the document is stored under.
DedupeNoIncrement(map, fileName) ==
    IF fileName \in DOMAIN map
    THEN [map |-> map, fileName |-> WithCounter(fileName, map[fileName])]
    ELSE [map |-> MapSet(map, fileName, 1), fileName |-> fileName]

Dedupe(map, fileName) ==
    IF fileName \in DOMAIN map
    THEN [map |-> MapSet(map, fileName, map[fileName] + 1),
          fileName |-> WithCounter(fileName, map[fileName])]
    ELSE [map |-> MapSet(map, fileName, 1), fileName |-> fileName]

\* The same in exportAllToHtml.
DedupeHtml(map, fileName) ==
    IF fileName \in DOMAIN map
    THEN [map |-> MapSet(map, fileName, map[fileName] + 1),
          fileName |-> WithCounter(fileName, map[fileName])]
    ELSE [map |-> MapSet(map, fileName, 1), fileName |-> fileName]

DedupeFor(fmt, map, fileName) ==
    IF fmt = "markdown" THEN Dedupe(map, fileName) ELSE DedupeHtml(map, fileName)

ExtOf(fmt) == IF fmt = "markdown" THEN "md" ELSE "html"

\* zip.file(name, data): an entry of the same name is replaced.
ZipFile(archive, name, conv) ==
    { e \in archive : e.fileName # name } \cup {[fileName |-> name, conv |-> conv]}

\* exportAllToMarkdown / exportAllToHtml up to the loop.
exportAllTo(fmt, batch) ==
    /\ bpc = "idle"
    /\ bFormat' = fmt
    /\ bConversations' = batch
    /\ globalImageHandler' = strategySetting
    /\ bStrategy' = strategySetting
    /\ filenameMap' = <<>>
    /\ zip' = {}
    /\ bCursor' = 1
    /\ bpc' = "loop"
    /\ UNCHANGED << bStored, bDownloads >>
    /\ UNCHANGED << strategySetting, pc, format, conversation, images,
                    imageHandlingStrategy, imageHandler,
                    failed, processedImages, exportFiles,
                    imageMetadata, imageIndex, rendered, downloads >>
    /\ UNCHANGED << pageVars, handlerVars, textVars,
                    customMarker, strategyVars, objectVars, domVars >>

exportAllToMarkdown == \E batch \in Batches : exportAllTo("markdown", batch)

exportAllToHtml == \E batch \in Batches : exportAllTo("html", batch)

\* conversationToMarkdown / conversationToHtml as the loop calls it: the
\* conversion takes the global handler, extracts and processes the images
\* (those at the positions in bad failing) and renders the messages.  The
\* strategy is "" when the conversation has no image to process; fetched:
\* the conversion waited for an image to load.
Conversion(fmt, nodes, handler, bad) ==
    LET list == ExtractFor(fmt, nodes)
        result == IF Len(list) > 0
                  THEN resultOf(handler, processAll(handler, list, bad))
                  ELSE NoResult
    IN [strategy |-> IF Len(list) > 0 THEN handler ELSE "",
        fetched |-> Fetching(handler, list) # {},
        document |-> renderNodes(fmt, nodes, Len(nodes),
                                 result.processedImages).content,
        exportFiles |-> result.files]

\* One iteration of the loop over the conversations: name, de-duplication,
\* conversion, zip.file of the document alone.  A conversion that raises
\* rejects the export.
exportAllIteration ==
    /\ bpc = "loop"
    /\ bCursor <= Len(bConversations)
    /\ LET conv == bConversations[bCursor]
           deduped == DedupeFor(bFormat, filenameMap,
                                getFileNameWithFormat(conv, ExtOf(bFormat)))
       IN /\ filenameMap' = deduped.map
          /\ IF conv.raises
             THEN /\ bpc' = "rejected"
                  /\ UNCHANGED << zip, bStored, bCursor >>
             ELSE \E bad \in SUBSET Fetching(globalImageHandler,
                                   ExtractFor(bFormat, conv.nodes)) :
                  LET converted == Conversion(bFormat, conv.nodes,
                                              globalImageHandler, bad)
                  IN /\ zip' = ZipFile(zip, deduped.fileName, bCursor)
                     /\ bStored' = Append(bStored,
                           [conv |-> bCursor, fileName |-> deduped.fileName,
                            strategy |-> converted.strategy,
                            fetched |-> converted.fetched,
                            document |-> converted.document])
                     /\ bCursor' = bCursor + 1
                     /\ UNCHANGED bpc
    /\ UNCHANGED << bFormat, bConversations, bDownloads, bStrategy >>
    /\ UNCHANGED << exportVars, pageVars, handlerVars, textVars,
                    customMarker, strategyVars, objectVars, domVars >>

\* zip.generateAsync and the download of the archive.
exportAllDownload ==
    /\ bpc = "loop"
    /\ bCursor > Len(bConversations)
    /\ bDownloads' = Append(bDownloads, [kind |-> "zip", entries |-> zip])
    /\ bpc' = "done"
    /\ UNCHANGED << bFormat, bConversations, bCursor, filenameMap, bStored, zip,
                    bStrategy >>
    /\ UNCHANGED << exportVars, pageVars, handlerVars, textVars,
                    customMarker, strategyVars, objectVars, domVars >>

NextBatch ==
    \/ exportAllToMarkdown
    \/ exportAllToHtml
    \/ exportAllIteration
    \/ exportAllDownload

SpecBatch == Init /\ [][NextBatch]_vars

Next ==
    \/ exportToMarkdown
    \/ exportToHtml
    \/ conversationStart
    \/ conversationReturns
    \/ download

Spec == Init /\ [][Next]_vars

(* ---------------------------------------------------------------------- *)
(* The handler object                                                      *)
(* ---------------------------------------------------------------------- *)
\* The most setStrategy calls made on one handler.
MaxCalls == 3

\* The values a strategy argument takes at run time: the three strategies,
\* "" for an argument left out, and a value that is none of the three.
StrategyValues == Strategies \cup {"", "unknown"}

\* createImageProcessor reaches its default case and throws.
createImageProcessorThrows(strategy) == strategy \notin Strategies

\* The processor createImageProcessor returns, by its getStrategyName().
createImageProcessor(strategy) == strategy

\* new DefaultImageHandler(initialStrategy) replaces the handler; when the
\* constructor throws there is no new handler and the old one stays.
newDefaultImageHandler(initialStrategy) ==
    LET strategy == IF initialStrategy = "" THEN "embed_base64"
                    ELSE initialStrategy
    IN /\ IF createImageProcessorThrows(strategy)
          THEN UNCHANGED << currentStrategy, processor, hCalls >>
          ELSE /\ currentStrategy' = strategy
               /\ processor' = createImageProcessor(strategy)
               /\ hCalls' = <<>>
       /\ UNCHANGED << hpc, hImages, slots, hFailed, hBlank, overtaken,
                       hResult >>
       /\ UNCHANGED << exportVars, pageVars, batchVars, textVars, customMarker,
                       strategyVars, domVars >>

\* handler.setStrategy(strategy); the assignment to this.processor is not
\* reached when createImageProcessor throws.
setStrategy(strategy) ==
    /\ Len(hCalls) < MaxCalls
    /\ currentStrategy' = strategy
    /\ processor' = IF createImageProcessorThrows(strategy) THEN processor
                    ELSE createImageProcessor(strategy)
    /\ hCalls' = Append(hCalls,
                        [strategy |-> strategy,
                         threw |-> createImageProcessorThrows(strategy)])
    /\ UNCHANGED << hpc, hImages, slots, hFailed, hBlank, overtaken,
                    hResult >>
    /\ UNCHANGED << exportVars, pageVars, batchVars, textVars, customMarker,
                    strategyVars, domVars >>

getStrategy == currentStrategy

getProcessor == processor

construct == \E initial \in StrategyValues : newDefaultImageHandler(initial)

setStrategyAny ==
    \E strategy \in StrategyValues \ {""} : setStrategy(strategy)

NextObject ==
    \/ construct
    \/ setStrategyAny

SpecObject == Init /\ [][NextObject]_vars

(* ---------------------------------------------------------------------- *)
(* Waiting for hydration                                                   *)
(* ---------------------------------------------------------------------- *)
\* Time is counted in units of 100 ms.  The most units a timer fires late.
MaxLate == 1

maxChecks == 50

\* maxWaitTime: the default of 10000 ms, and 300 ms.
DefaultMaxWaitTime == 100

MaxWaitTimes == {3, DefaultMaxWaitTime}

\* onloadSafe(fn) of utils/utils: fn is called at once when the page has
\* loaded and at the load event otherwise.  The position after
\* onloadSafe(() => setTimeout(checkHydration, 100)).
onloadSafe == IF pageLoaded THEN "check_timer" ELSE "loading"

\* waitForReactHydration(callback, maxWait): startTime is taken and the
\* first check is left to onloadSafe.
waitForReactHydration(maxWait) ==
    /\ wpc \in {"idle", "main_loading"}
    /\ maxWaitTime' = maxWait
    /\ elapsed' = 0
    /\ checkCount' = 0
    /\ wpc' = onloadSafe
    /\ UNCHANGED << pageLoaded, wSeen, wInvoked >>
    /\ UNCHANGED << exportVars, pageVars, handlerVars, batchVars, textVars,
                    customMarker, strategyVars, objectVars, injectVars >>

\* A call with maxWaitTime given, before or after the page has loaded.
waitForReactHydrationCalled ==
    /\ wpc = "idle"
    /\ \E maxWait \in MaxWaitTimes : waitForReactHydration(maxWait)

\* main(): onloadSafe calls waitForReactHydration with the default
\* maxWaitTime, at once or at the load event.
main ==
    /\ wpc = "idle"
    /\ IF pageLoaded
       THEN waitForReactHydration(DefaultMaxWaitTime)
       ELSE /\ wpc' = "main_loading"
            /\ UNCHANGED << pageLoaded, maxWaitTime, checkCount, elapsed,
                            wSeen, wInvoked >>
            /\ UNCHANGED << exportVars, pageVars, handlerVars, batchVars,
                            textVars, customMarker, strategyVars, objectVars,
                            injectVars >>

\* The load event: the functions handed to onloadSafe are called; time has
\* passed since startTime was taken.
pageLoads ==
    /\ ~pageLoaded
    /\ pageLoaded' = TRUE
    /\ CASE wpc = "main_loading" ->
              /\ maxWaitTime' = DefaultMaxWaitTime
              /\ elapsed' = 0
              /\ wpc' = "check_timer"
         [] wpc = "loading" ->
              /\ \E late \in 0..MaxLate : elapsed' = elapsed + late
              /\ wpc' = "check_timer"
              /\ UNCHANGED maxWaitTime
         [] OTHER -> UNCHANGED << wpc, maxWaitTime, elapsed >>
    /\ UNCHANGED << checkCount, wSeen, wInvoked >>
    /\ UNCHANGED << exportVars, pageVars, handlerVars, batchVars, textVars,
                    customMarker, strategyVars, objectVars, injectVars >>

\* The two ifs of checkHydration: what the check does after it has counted
\* itself and read the clock.
HydrationStepNoLimit(hydrated, e, count, maxWait) ==
    CASE hydrated -> "callback_timer"
      [] ~hydrated /\ e > maxWait -> "invoke"
      [] OTHER -> "check_timer"

HydrationStep(hydrated, e, count, maxWait) ==
    CASE hydrated -> "callback_timer"
      [] ~hydrated /\ (e > maxWait \/ count >= maxChecks) -> "invoke"
      [] OTHER -> "check_timer"

\* The timer of checkHydration fires, 100 ms after the start for the first
\* check and 200 ms after the check before for the others, or later.  The
\* check sees the indicators or not; a callback invoked at once may throw,
\* which is caught.
checkHydration ==
    /\ wpc = "check_timer"
    /\ \E late \in 0..MaxLate, isHydrated \in BOOLEAN, reactActive \in BOOLEAN,
          throws \in BOOLEAN :
          LET e == elapsed + (IF checkCount = 0 THEN 1 ELSE 2) + late
              count == checkCount + 1
              step == HydrationStep(isHydrated /\ reactActive, e, count,
                                    maxWaitTime)
          IN /\ checkCount' = count
             /\ elapsed' = e
             /\ wSeen' = (isHydrated /\ reactActive)
             /\ IF step = "invoke"
                THEN /\ wInvoked' = Append(wInvoked,
                            [delay |-> 0, check |-> count, threw |-> throws])
                     /\ wpc' = "done"
                ELSE /\ wpc' = step
                     /\ throws = FALSE
                     /\ UNCHANGED wInvoked
    /\ UNCHANGED << pageLoaded, maxWaitTime >>
    /\ UNCHANGED << exportVars, pageVars, handlerVars, batchVars, textVars,
                    customMarker, strategyVars, objectVars, injectVars >>

\* The timer of 500 ms fires and the callback is invoked; it may throw.
callbackTimer ==
    /\ wpc = "callback_timer"
    /\ \E late \in 0..MaxLate, throws \in BOOLEAN :
          /\ elapsed' = elapsed + 5 + late
          /\ wInvoked' = Append(wInvoked,
                 [delay |-> 5, check |-> checkCount, threw |-> throws])
    /\ wpc' = "done"
    /\ UNCHANGED << pageLoaded, maxWaitTime, checkCount, wSeen >>
    /\ UNCHANGED << exportVars, pageVars, handlerVars, batchVars, textVars,
                    customMarker, strategyVars, objectVars, injectVars >>

NextHydration ==
    \/ waitForReactHydrationCalled
    \/ main
    \/ pageLoads
    \/ checkHydration
    \/ callbackTimer

SpecHydration == Init /\ [][NextHydration]_vars

\* Timers that are pending fire.
SpecHydrationFair ==
    SpecHydration /\ WF_vars(checkHydration) /\ WF_vars(callbackTimer)

(* ---------------------------------------------------------------------- *)
(* Injection with retries                                                  *)
(* ---------------------------------------------------------------------- *)
\* The largest retryCount.
MaxRetry == 3

\* What an attempt finds: the target is missing, the insertion throws, or
\* the target exists and the insertion does not throw.
AttemptOutcomes == {"missing", "threw", "inserted"}

\* What attemptInjection does after it has counted itself.
InjectionStepOneMore(outcome, count, retry) ==
    CASE outcome = "inserted" -> "resolve_true"
      [] outcome # "inserted" /\ count <= retry -> "retry"
      [] OTHER -> "resolve_false"

InjectionStep(outcome, count, retry) ==
    CASE outcome = "inserted" -> "resolve_true"
      [] outcome # "inserted" /\ count < retry -> "retry"
      [] OTHER -> "resolve_false"

\* One run of attemptInjection.
Attempt(retry, outcome) ==
    LET count == attempts + 1
        step == InjectionStep(outcome, count, retry)
    IN /\ attempts' = count
       /\ iOutcomes' = Append(iOutcomes, outcome)
       /\ IF step = "retry"
          THEN /\ ipc' = "timer"
               /\ UNCHANGED iResolved
          ELSE /\ ipc' = "resolved"
               /\ iResolved' = Append(iResolved, step = "resolve_true")

\* safeInject(targetSelector, element, position, retryCount): the promise
\* is built and the first attempt is made in the call.
safeInject ==
    /\ ipc = "idle"
    /\ \E retry \in 1..MaxRetry, outcome \in AttemptOutcomes :
          /\ retryCount' = retry
          /\ Attempt(retry, outcome)
    /\ UNCHANGED << exportVars, pageVars, handlerVars, batchVars, textVars,
                    customMarker, strategyVars, objectVars, hydrationVars >>

\* The timer of 500 ms or 1000 ms fires and attemptInjection runs again.
attemptInjection ==
    /\ ipc = "timer"
    /\ \E outcome \in AttemptOutcomes : Attempt(retryCount, outcome)
    /\ UNCHANGED retryCount
    /\ UNCHANGED << exportVars, pageVars, handlerVars, batchVars, textVars,
                    customMarker, strategyVars, objectVars, hydrationVars >>

NextInject ==
    \/ safeInject
    \/ attemptInjection

SpecInject == Init /\ [][NextInject]_vars

\* A timer that is pending fires.
SpecInjectFair == SpecInject /\ WF_vars(attemptInjection)

(* ---------------------------------------------------------------------- *)
(* Two exports at once                                                     *)
(* ---------------------------------------------------------------------- *)
\* saveSettings of the settings provider: the strategy and the custom
\* marker text chosen in the dialog are written to ScriptStorage.
saveSettings ==
    /\ strategySetting' \in Strategies
    /\ customMarker' \in CustomMarkers
    /\ UNCHANGED << globalImageHandler, pc, format, conversation,
                    imageHandlingStrategy, imageHandler, images, failed,
                    processedImages, exportFiles, imageMetadata, imageIndex,
                    rendered, downloads >>
    /\ UNCHANGED << pageVars, handlerVars, batchVars, textVars, strategyVars,
                    objectVars, domVars >>

\* A conversation of one message by the tool with one image.
ImageConversation ==
    << Msg("tool", "all", "multimodal_text", TRUE,
           << Item("image_asset_pointer", Url("d", "png")) >>) >>

\* The batches of conversations with an image, all of one title.
ImageBatches ==
    UNION { [1..n -> [name : {[title |-> "A", counters |-> <<>>]},
                      raises : {FALSE}, nodes : {ImageConversation}]] :
            n \in 1..MaxBatch }

\* The batch export is not running, or it is suspended at an await that
\* lets another task run: the conversion of the conversation before the
\* cursor waits for an image to load, or the archive is being generated.
\* Nothing lets go between initializeImageHandler and the first conversion.
BatchSuspended ==
    \/ bpc # "loop"
    \/ bCursor > Len(bConversations)
    \/ bCursor > 1 /\ bStored # <<>> /\ bStored[Len(bStored)].fetched

\* The same of the single export: it waits for the conversation to be
\* fetched or for an image to load.
ExportSuspended ==
    \/ pc \in {"idle", "refused", "done", "fetched"}
    \/ pc = "awaiting" /\ Fetching(imageHandler, images) # {}

\* The batch export is started on conversations with images.
raceExportAll ==
    /\ ExportSuspended
    /\ \E fmt \in Formats, batch \in ImageBatches : exportAllTo(fmt, batch)

raceExportAllIteration == ExportSuspended /\ exportAllIteration

raceExportAllDownload == ExportSuspended /\ exportAllDownload

\* The user saves other settings while the exports are suspended.
raceSaveSettings == BatchSuspended /\ ExportSuspended /\ saveSettings

\* A single export is started, on a conversation without or with an image.
raceExport ==
    /\ BatchSuspended
    /\ \E fmt \in Formats, c \in {<<>>, ImageConversation} : exportTo(fmt, c)

raceConversationStart == BatchSuspended /\ conversationStart

raceConversationReturns == BatchSuspended /\ conversationReturns

raceDownload == BatchSuspended /\ download

\* A batch export and a single export run at once, each going on while the
\* other is suspended.
NextRace ==
    \/ raceExportAll
    \/ raceExportAllIteration
    \/ raceExportAllDownload
    \/ raceSaveSettings
    \/ raceExport
    \/ raceConversationStart
    \/ raceConversationReturns
    \/ raceDownload

SpecRace == Init /\ [][NextRace]_vars

(* ---------------------------------------------------------------------- *)
(* Text: footnote rewrite, math protection, escaping                       *)
(* ---------------------------------------------------------------------- *)
\* A text is a sequence of lines, one segment each.
Seg(k, n, delim, follow, form) ==
    [k |-> k, n |-> n, delim |-> delim, follow |-> follow, form |-> form]

\* Ordinary words.
Prose == Seg("prose", 0, "", "", "raw")

\* One of the characters & < > " ' among words.
Special(c) == Seg("char", 0, c, "", "raw")

\* A math span with body n between words, after a space: \(n\) for delim
\* "paren", $n$ for "dollar"; follow is what comes after the closing
\* delimiter, a space or a punctuation mark.
Math(n, delim, follow) == Seg("math", n, delim, follow, "raw")

\* ``` with code
Fence == Seg("fence", 0, "", "", "raw")

\* A citation marker with index n and a label in parentheses.
Marker(n) == Seg("marker", n, "", "", "raw")

\* [^n]
FootNoteRef(n) == Seg("ref", n, "", "", "raw")

\* [^n]: title
FootNoteDef(n, title) == Seg("def", n, title, "", "raw")

\* The sentinel with number n.
Sentinel(n) == Seg("sentinel", n, "", "", "raw")

\* The string "undefined" a replacer callback returning undefined yields.
Undefined == Seg("undefined", 0, "", "", "raw")

\* The blank line between the text and the footnote definitions.
Break == Seg("break", 0, "", "", "raw")

Lines ==
    { Prose, Fence, Marker(3), Marker(5),
      Special("&"), Special("<"), Special(">"), Special("\""), Special("'"),
      Math(1, "paren", "punct"), Math(2, "paren", "space"),
      Math(3, "dollar", "space") }

Texts == UNION { [1..n -> Lines] : n \in 0..MaxText }

\* metadata.citations: cited_message_idx and title ("" for no title).
Citation(idx, title) == [idx |-> idx, title |-> title]

CitationLists ==
    { <<>>,
      << Citation(3, "SourceName") >>,
      << Citation(3, ""), Citation(3, "SourceName") >> }

\* metadata?.citations?.find(cite => cited_message_idx === +citeIndex)
HasCitation(citations, n) == \E c \in DOMAIN citations : citations[c].idx = n

FindCitation(citations, n) ==
    citations[CHOOSE c \in DOMAIN citations :
                 /\ citations[c].idx = n
                 /\ \A e \in DOMAIN citations : citations[e].idx = n => c <= e]

IsCited(citations, seg) == seg.k = "marker" /\ HasCitation(citations, seg.n)

\* transformFootNotes of the Markdown half.
transformFootNotesVerbatim(input, citations) ==
    LET citationList == SelectSeq(input, LAMBDA seg : IsCited(citations, seg))
    IN input
       \o << Break >>
       \o [c \in DOMAIN citationList |->
             LET citation == FindCitation(citations, citationList[c].n)
             IN FootNoteDef(citation.idx,
                            IF citation.title = "" THEN "No title"
                            ELSE citation.title)]

transformFootNotes(input, citations) ==
    LET citationList == SelectSeq(input, LAMBDA seg : IsCited(citations, seg))
    IN [i \in DOMAIN input |->
          IF IsCited(citations, input[i]) THEN FootNoteRef(input[i].n)
          ELSE input[i]]
       \o << Break >>
       \o [c \in DOMAIN citationList |->
             LET citation == FindCitation(citations, citationList[c].n)
             IN FootNoteDef(citation.idx,
                            IF citation.title = "" THEN "No title"
                            ELSE citation.title)]

\* transformFootNotes of the HTML half.
transformFootNotesHtmlKeepsAll(input, citations) == input

transformFootNotesHtml(input, citations) ==
    SelectSeq(input, LAMBDA seg : ~IsCited(citations, seg))

\* The replace chain \[ \] \( \) -> $.
normalizeDelimiters(text) ==
    [i \in DOMAIN text |->
        IF text[i].k = "math" /\ text[i].delim = "paren"
        THEN [text[i] EXCEPT !.delim = "dollar"]
        ELSE text[i]]

\* LatexRegex matches the span of the line: \(.+\) as it is, $.+$ between
\* white space.
LatexRegex(seg) ==
    /\ seg.k = "math"
    /\ \/ seg.delim = "paren"
       \/ seg.delim = "dollar" /\ seg.follow = "space"

\* input.match(LatexRegex); the empty sequence for null
LatexMatches(text) == SelectSeq(text, LatexRegex)

\* /```/.test(input)
isCodeBlock(text) == \E i \in DOMAIN text : text[i].k = "fence"

\* input.replace(LatexRegex, () => sentinel number index++)
Protect(text) ==
    [i \in DOMAIN text |->
        IF LatexRegex(text[i])
        THEN Sentinel(Cardinality({ e \in 1..(i - 1) : LatexRegex(text[e]) }))
        ELSE text[i]]

\* transformed.replace(/sentinel (\d+)/g, (_, index) => matches[+index])
Restore(text, matches) ==
    [i \in DOMAIN text |->
        IF text[i].k = "sentinel"
        THEN IF text[i].n + 1 \in DOMAIN matches THEN matches[text[i].n + 1]
             ELSE Undefined
        ELSE text[i]]

\* toMarkdown(fromMarkdown(input)) / toHtml(fromMarkdown(input)): the words
\* are printed again, a math span left in the text can be rewritten, every
\* other line is kept.
RoundTrip(text, rewrites) ==
    [i \in DOMAIN text |->
        CASE text[i].k = "prose" -> [text[i] EXCEPT !.form = "printed"]
          [] text[i].k = "math" /\ rewrites -> [text[i] EXCEPT !.form = "rewritten"]
          [] OTHER -> text[i]]

\* The second post step of an assistant message in conversationToMarkdown.
reformatMarkdown(text, rewrites) ==
    LET input == normalizeDelimiters(text)
        matches == LatexMatches(input)
        protects == ~isCodeBlock(input) /\ Len(matches) > 0
        transformed == RoundTrip(IF protects THEN Protect(input) ELSE input,
                                 rewrites)
    IN IF protects THEN Restore(transformed, matches) ELSE transformed

\* The second post step of an assistant message in conversationToHtml.
reformatHtml(text, rewrites) ==
    LET matches == LatexMatches(text)
        protects == ~isCodeBlock(text) /\ Len(matches) > 0
        transformed == RoundTrip(IF protects
                                 THEN normalizeDelimiters(Protect(text))
                                 ELSE text,
                                 rewrites)
    IN IF protects THEN Restore(transformed, matches) ELSE transformed

Entity(c) ==
    CASE c = "&" -> "&amp;"
      [] c = "<" -> "&lt;"
      [] c = ">" -> "&gt;"
      [] c = "\"" -> "&quot;"
      [] c = "'" -> "&#039;"
      [] OTHER -> c

escapeHtml(html) ==
    [i \in DOMAIN html |->
        IF html[i].k = "char"
        THEN [html[i] EXCEPT !.delim = Entity(html[i].delim), !.form = "entity"]
        ELSE html[i]]

\* <p class="no-katex"> and </p>
NoKatexOpen == Seg("p", 0, "no-katex", "", "raw")

NoKatexClose == Seg("/p", 0, "", "", "raw")

\* The post steps conversationToMarkdown pushes for a message.
postSteps(role) ==
    IF role = "assistant" THEN << "transformFootNotes", "reformat" >> ELSE <<>>

\* The post steps conversationToHtml collects for a message.
postStepsHtml(role) ==
    CASE role = "assistant" -> << "transformFootNotes", "reformat" >>
      [] role = "user" -> << "escapeHtml" >>
      [] OTHER -> <<>>

\* postSteps.reduce((acc, fn) => fn(acc), input) in conversationToMarkdown
postProcess(role, input, citations, rewrites) ==
    IF role = "assistant"
    THEN reformatMarkdown(transformFootNotes(input, citations), rewrites)
    ELSE input

\* The same in conversationToHtml.
postProcessHtml(role, input, citations, rewrites) ==
    CASE role = "assistant" ->
            reformatHtml(transformFootNotesHtml(input, citations), rewrites)
      [] role = "user" ->
            << NoKatexOpen >> \o escapeHtml(input) \o << NoKatexClose >>
      [] OTHER -> input

\* What the first post step of the message returns, the input if the
\* message has none.
FootNotedFor(fmt, role, input, citations) ==
    IF role # "assistant" THEN input
    ELSE IF fmt = "markdown" THEN transformFootNotes(input, citations)
    ELSE transformFootNotesHtml(input, citations)

PostStepsFor(fmt, role) ==
    IF fmt = "markdown" THEN postSteps(role) ELSE postStepsHtml(role)

PostProcessFor(fmt, role, input, citations, rewrites) ==
    IF fmt = "markdown" THEN postProcess(role, input, citations, rewrites)
    ELSE postProcessHtml(role, input, citations, rewrites)

\* A piece transformContent builds and the string it hands to postProcess.
Call(piece, input) == [piece |-> piece, input |-> input]

\* > title
QuoteMark == Seg("quote", 0, "", "", "raw")

\* > [title](url)
Link == Seg("link", 0, "", "", "raw")

\* ![image](...) / <img src="..." /> / [IMAGE_n] for the n-th image
ImageRef(n) == Seg("image", n, "", "", "raw")

\* [Unsupported Content] / [Unsupported multimodal content]
Unsupported == Seg("unsupported", 0, "", "", "raw")

\* Result:, the fence with content.text, and the image references.
ResultBlock(node) ==
    LET imageMessages == IF node.hasList
                         THEN SelectSeq(node.items, LAMBDA m : m.tag = "image")
                         ELSE <<>>
    IN << Prose, Fence >> \o [k \in DOMAIN imageMessages |-> ImageRef(k - 1)]

\* The postProcess calls of transformContent (markdown), in order; text is
\* the joined parts, the string part or the title of the content.
postProcessCalls(node, text) ==
    CASE node.content_type = "text" -> << Call("text", text) >>
      [] node.content_type = "code" -> <<>>
      [] node.content_type = "execution_output" ->
            << Call("result", ResultBlock(node)) >>
      [] node.content_type = "tether_quote" ->
            << Call("quote", << QuoteMark >> \o text) >>
      [] node.content_type = "tether_browsing_code" -> << Call("empty", <<>>) >>
      [] node.content_type = "tether_browsing_display" ->
            IF node.hasList /\ Len(node.items) > 0
            THEN << Call("links", [k \in DOMAIN node.items |-> Link]) >>
            ELSE << Call("empty", <<>>) >>
      [] node.content_type = "multimodal_text" ->
            IF node.hasList
            THEN LET posted == SelectSeq(node.items, LAMBDA p :
                        p.tag \notin {"image_asset_pointer", "audio_transcription",
                                      "audio_asset_pointer",
                                      "real_time_user_audio_video_asset_pointer"})
                 IN [k \in DOMAIN posted |->
                        IF posted[k].tag = "string" THEN Call("string", text)
                        ELSE Call("unsupported", << Unsupported >>)]
            ELSE <<>>
      [] OTHER -> << Call("unsupported", << Unsupported >>) >>

\* The postProcess calls of transformContent (html).
postProcessCallsHtml(node, text) ==
    CASE node.content_type = "text" -> << Call("text", text) >>
      [] node.content_type = "code" -> <<>>
      [] node.content_type = "execution_output" ->
            << Call("result", ResultBlock(node)) >>
      [] node.content_type = "tether_quote" ->
            << Call("quote", << QuoteMark >> \o text) >>
      [] node.content_type = "tether_browsing_code" -> << Call("empty", <<>>) >>
      [] node.content_type = "tether_browsing_display" ->
            IF node.hasList /\ Len(node.items) > 0
            THEN << Call("links", [k \in DOMAIN node.items |-> Link]) >>
            ELSE << Call("empty", <<>>) >>
      [] node.content_type = "multimodal_text" ->
            IF node.hasList
            THEN LET posted == SelectSeq(node.items, LAMBDA p :
                        p.tag \notin {"image_asset_pointer", "audio_transcription",
                                      "audio_asset_pointer",
                                      "real_time_user_audio_video_asset_pointer"})
                 IN [k \in DOMAIN posted |->
                        IF posted[k].tag = "string" THEN Call("string", text)
                        ELSE Call("unsupported", << Unsupported >>)]
            ELSE <<>>
      [] OTHER -> << Call("unsupported", << Unsupported >>) >>

PostProcessCallsFor(fmt, node, text) ==
    IF fmt = "markdown" THEN postProcessCalls(node, text)
    ELSE postProcessCallsHtml(node, text)

\* The messages whose content is rendered on its own.
TextPool ==
    { Msg("assistant", "all", "text", FALSE, <<>>),
      Msg("user", "all", "text", FALSE, <<>>),
      Msg("system", "all", "text", FALSE, <<>>),
      Msg("assistant", "all", "code", FALSE, <<>>),
      Msg("assistant", "all", "tether_quote", FALSE, <<>>),
      Msg("assistant", "all", "tether_browsing_display", TRUE,
          << Item("link", Url("l", "")) >>),
      Msg("tool", "all", "execution_output", TRUE,
          << Item("image", Url("a", "png")) >>),
      Msg("tool", "all", "multimodal_text", TRUE,
          << Item("string", UndefinedUrl),
             Item("image_asset_pointer", Url("d", "png")) >>),
      Msg("user", "all", "multimodal_text", TRUE,
          << Item("string", UndefinedUrl) >>) }

\* The texts a message of the pool is rendered with.
TextsOf(node) ==
    IF node.content_type \in {"text", "multimodal_text"} THEN Texts
    ELSE { << Prose >>, << Special("<") >> }

\* Citations come with assistant messages.
CitationsOf(node) ==
    IF node.role = "assistant" /\ node.content_type = "text" THEN CitationLists
    ELSE { <<>> }

\* The loop body of conversationToMarkdown / conversationToHtml for one
\* message that is not skipped: the post steps are collected and
\* transformContent is called with their composition.
transformMessage ==
    /\ tpc = "idle"
    /\ \E fmt \in Formats, node \in TextPool, rewrites \in BOOLEAN :
          /\ ~SkipsFor(fmt, node)
          /\ \E text \in TextsOf(node), citations \in CitationsOf(node) :
                LET calls == PostProcessCallsFor(fmt, node, text)
                IN /\ tFormat' = fmt
                   /\ tMessage' = node
                   /\ tText' = text
                   /\ tCitations' = citations
                   /\ tRewrites' = rewrites
                   /\ tCalls' =
                         [c \in DOMAIN calls |->
                            [piece |-> calls[c].piece,
                             input |-> calls[c].input,
                             steps |-> PostStepsFor(fmt, node.role),
                             footnoted |-> FootNotedFor(fmt, node.role,
                                              calls[c].input, citations),
                             output |-> PostProcessFor(fmt, node.role,
                                           calls[c].input, citations, rewrites)]]
    /\ tpc' = "done"
    /\ UNCHANGED << exportVars, pageVars, handlerVars, batchVars,
                    customMarker, strategyVars, objectVars, domVars >>

NextText == transformMessage

SpecText == Init /\ [][NextText]_vars

(* ---------------------------------------------------------------------- *)
(* One image handed twice to the callback of processConversationImages     *)
(* ---------------------------------------------------------------------- *)
ConversationIds == { ConversationId, Uuid("0f1e2d3c-4b5", "a-6978") }

\* message.author of the context: role and name.
Author(role, name) == [role |-> role, name |-> name]

Authors ==
    { Author("", <<>>), Author("assistant", <<>>), Author("user", <<>>),
      Author("tool", <<>>), Author("tool", << "python" >>),
      Author("tool", << "My", " ", " ", "Tool", ":" >>),
      Author("system", <<>>) }

StrategyUrls == { Url("a", "png"), Url("g", "svg"), NullUrl }

\* The (url, context) pairs handed to the callback.
StrategyImages ==
    { [url |-> u,
       context |-> Context(c, m, k, u, "multimodal_text", a.role, a.name, t)] :
         c \in ConversationIds, m \in 1..2, k \in 0..1, u \in StrategyUrls,
         a \in Authors, t \in 0..1 }

\* One call of the callback and what it returns.
StrategyCall(strategy, image, ok, now, random) ==
    [strategy |-> strategy, ok |-> ok, now |-> now, random |-> random,
     result |-> processOneAt(strategy, image, ok, now, random)]

\* The callback is called for the image at time 1 and again at a time not
\* before it, each time by the handler of some strategy, the image loading
\* or not.
processImageTwice ==
    /\ spc = "idle"
    /\ \E image \in StrategyImages, s1 \in Strategies, s2 \in Strategies,
          ok1 \in BOOLEAN, ok2 \in BOOLEAN, now \in 1..MaxClock,
          r1 \in 1..MaxClock, r2 \in 1..MaxClock :
          /\ sImage' = image
          /\ sCalls' = << StrategyCall(s1, image, ok1, 1, r1),
                          StrategyCall(s2, image, ok2, now, r2) >>
    /\ spc' = "done"
    /\ UNCHANGED << exportVars, pageVars, handlerVars, batchVars, textVars,
                    customMarker, objectVars, domVars >>

NextStrategy == processImageTwice

SpecStrategy == Init /\ [][NextStrategy]_vars

(* ---------------------------------------------------------------------- *)
(* Properties                                                              *)
(* ---------------------------------------------------------------------- *)
Returned == pc \in {"converted", "done"} /\ Len(images) > 0

\* The results the callback can produce from the image at position i.
ResultsOf(i) ==
    { processOne(currentStrategy, hImages[i], ok) : ok \in BOOLEAN }
       \cup { processOneBlank(currentStrategy, hImages[i]) }

\* C1: the promise slots, and the processedImages list returned, have the
\* length of the images argument, and the value at position i is the one
\* produced from the (url, context) at position i, whatever the order in
\* which the promises settle or fail.
C1_ResultsInInputOrder ==
    /\ hpc = "awaiting" =>
          /\ Len(slots) = Len(hImages)
          /\ \A i \in DOMAIN slots : slots[i] = Pending \/ slots[i] \in ResultsOf(i)
    /\ hpc = "returned" =>
          /\ Len(hResult.processedImages) = Len(hImages)
          /\ hResult.processedImages
                = processAllBlank(currentStrategy, hImages, hFailed, hBlank)

\* C1 witness: three images were processed, one settled before an earlier
\* one, and one failed.
C1_Witness ==
    /\ hpc = "returned"
    /\ Len(hResult.processedImages) >= 3
    /\ overtaken
    /\ hFailed # {}

\* C2: the imageStartIndex a rendered message gets is the number of images
\* extracted from the nodes before it, and at the end the running counter is
\* the number of extracted images.
C2_StartIndexIsExtractedBefore ==
    /\ \A r \in DOMAIN rendered :
          rendered[r].imageStartIndex
             = Len(ExtractUpToFor(format, conversation, rendered[r].node - 1))
    /\ pc = "done" => imageIndex = Len(images)

ImageTokens(fragment) ==
    { fragment[t] : t \in { u \in DOMAIN fragment : fragment[u].t \in {"image", "img"} } }

\* C3: under embed_base64 and separate_files a failed fetch or decode of
\* image k leaves the failure marker without payload and file name at
\* position k, every other position has the result of a successful run, the
\* call returns, and every image reference of the document shows the content
\* of the processed image at its own index.
C3_FailureIsIsolated ==
    (Returned /\ globalImageHandler \in {"embed_base64", "separate_files"}) =>
       /\ Len(processedImages) = Len(images)
       /\ \A k \in failed :
             /\ processedImages[k].content = FailureMarker
             /\ processedImages[k].originalData = UndefinedUrl
             /\ processedImages[k].fileName = NoFileName
       /\ \A j \in DOMAIN images \ failed :
             processedImages[j] = processOne(globalImageHandler, images[j], TRUE)
       /\ \A r \in DOMAIN rendered :
             \A tok \in ImageTokens(rendered[r].fragment) :
                tok.content =
                   IF tok.index + 1 \in failed THEN FailureMarker
                   ELSE processOne(globalImageHandler, images[tok.index + 1],
                                   TRUE).content

\* C3 witness: an image failed, a later one succeeded, and both are referenced
\* in the finished document.
C3_Witness ==
    /\ pc = "done"
    /\ globalImageHandler \in {"embed_base64", "separate_files"}
    /\ \E k \in failed, j \in DOMAIN images \ failed :
          /\ k < j
          /\ \E r1, r2 \in DOMAIN rendered :
                /\ \E tok \in ImageTokens(rendered[r1].fragment) : tok.index + 1 = k
                /\ \E tok \in ImageTokens(rendered[r2].fragment) : tok.index + 1 = j

\* C4: the Markdown and the HTML extractor return the same list for the
\* conversation being exported, which is the list the export works on.
C4_ExtractorsAgree ==
    pc \notin {"idle", "fetched"} =>
       /\ images = extractImagesFromConversation(conversation)
       /\ images = extractImagesFromConversationHtml(conversation)

\* The filter as the claim words it.
IsShown(node) ==
    /\ node.hasMessage /\ node.hasContent
    /\ node.recipient = "all"
    /\ \/ node.role # "tool"
       \/ node.content_type = "multimodal_text"
       \/ /\ node.content_type = "execution_output"
          /\ \E j \in DOMAIN node.items : node.items[j].tag = "image"

\* C5: in both assemblers the nodes of the conversation are rendered exactly
\* when they have content, are addressed to 'all' and are not tool-authored,
\* or are multimodal_text, or execution_output with an image sub-message;
\* the rendered messages are in node order.
C5_RenderedIffShown ==
    /\ pc \in {"converted", "done"} =>
          \A n \in DOMAIN conversation :
             (\E r \in DOMAIN rendered : rendered[r].node = n)
                <=> IsShown(conversation[n])
    /\ \A r1, r2 \in DOMAIN rendered :
          r1 < r2 => rendered[r1].node < rendered[r2].node

\* C5 witness: a finished document of a conversation with a tool-authored
\* code message, left out, and a tool-authored multimodal_text message, shown.
C5_Witness ==
    /\ pc = "done"
    /\ \E n \in DOMAIN conversation :
          /\ conversation[n].role = "tool"
          /\ conversation[n].content_type = "code"
          /\ conversation[n].recipient = "all"
          /\ \A r \in DOMAIN rendered : rendered[r].node # n
    /\ \E r \in DOMAIN rendered :
          /\ conversation[rendered[r].node].role = "tool"
          /\ conversation[rendered[r].node].content_type = "multimodal_text"

Missing(g) ==
    g + 1 > Len(processedImages) \/ ~ContentTruthy(processedImages[g + 1].content)

\* Parts that render to a piece (audio pointers render to nothing).
Renders(part) ==
    part.tag \notin {"audio_asset_pointer", "real_time_user_audio_video_asset_pointer"}

ImagesBefore(items, j, tag) ==
    Cardinality({ l \in 1..(j - 1) : items[l].tag = tag })

PiecesUpTo(items, j) == Cardinality({ l \in 1..j : Renders(items[l]) })

\* C6: where processedImages[imageStartIndex + localIndex] is missing or has
\* empty content the fragment holds [IMAGE_<imageStartIndex + localIndex>] at
\* the place of that image, and the fragment still has one piece for every
\* other image and part of the message.
C6_PlaceholderForMissingImage ==
    \A r \in DOMAIN rendered :
       LET node == conversation[rendered[r].node]
           start == rendered[r].imageStartIndex
           fragment == rendered[r].fragment
       IN /\ (node.content_type = "execution_output" /\ node.hasList) =>
                /\ Len(fragment) = 1 + ImagesBefore(node.items, Len(node.items) + 1, "image")
                /\ \A j \in DOMAIN node.items :
                      (node.items[j].tag = "image"
                       /\ Missing(start + ImagesBefore(node.items, j, "image"))) =>
                         fragment[2 + ImagesBefore(node.items, j, "image")]
                            = Token("placeholder",
                                    start + ImagesBefore(node.items, j, "image"),
                                    TextContent(""))
          /\ (node.content_type = "multimodal_text" /\ node.hasList) =>
                /\ Len(fragment) = PiecesUpTo(node.items, Len(node.items))
                /\ \A j \in DOMAIN node.items :
                      (node.items[j].tag = "image_asset_pointer"
                       /\ Missing(start + ImagesBefore(node.items, j, "image_asset_pointer"))) =>
                         fragment[PiecesUpTo(node.items, j)]
                            = Token("placeholder",
                                    start + ImagesBefore(node.items, j, "image_asset_pointer"),
                                    TextContent(""))

\* C6 witness: a rendered fragment with a resolved image followed by a
\* placeholder for a missing one.
C6_Witness ==
    \E r \in DOMAIN rendered :
       \E t1, t2 \in DOMAIN rendered[r].fragment :
          /\ t1 < t2
          /\ rendered[r].fragment[t1].t \in {"image", "img"}
          /\ rendered[r].fragment[t2].t = "placeholder"
          /\ rendered[r].fragment[t2].index >= Len(processedImages)

BatchOver == bpc \in {"done", "rejected"}

\* C7: when a batch export is over, every conversation whose conversion did
\* not raise has been converted and added to the archive, and the archive
\* has been downloaded, also when the conversion of another one raised.
C7_BatchSurvivesError ==
    BatchOver =>
       /\ \A i \in DOMAIN bConversations :
             ~bConversations[i].raises =>
                \E s \in DOMAIN bStored : bStored[s].conv = i
       /\ Len(bDownloads) = 1

\* C8: the names under which the documents of a batch are stored are
\* pairwise distinct and the archive holds one document per stored one.
C8_StoredNamesDistinct ==
    /\ \A s1, s2 \in DOMAIN bStored :
          s1 # s2 => bStored[s1].fileName # bStored[s2].fileName
    /\ Cardinality(zip) = Len(bStored)

Computed(i) == getFileNameWithFormat(bConversations[i], ExtOf(bFormat))

EarlierSame(i) == { e \in 1..(i - 1) : Computed(e) = Computed(i) }

\* C9: the first conversation computing a name keeps it, and the j-th later
\* one computing the same name is stored under it with " (j)" before the
\* extension.
C9_CounterIsOrdinal ==
    \A s \in DOMAIN bStored :
       LET i == bStored[s].conv
           j == Cardinality(EarlierSame(i))
       IN bStored[s].fileName
             = IF j = 0 THEN Computed(i) ELSE WithCounter(Computed(i), j)

\* C9 witness: three conversations of one batch computed the same name and
\* are stored under the name, the name with (1) and the name with (2).
C9_Witness ==
    /\ bpc = "done"
    /\ \E s1, s2, s3 \in DOMAIN bStored :
          /\ s1 < s2 /\ s2 < s3
          /\ Computed(bStored[s1].conv) = Computed(bStored[s2].conv)
          /\ Computed(bStored[s2].conv) = Computed(bStored[s3].conv)
          /\ bStored[s2].fileName = WithCounter(Computed(bStored[s1].conv), 1)
          /\ bStored[s3].fileName = WithCounter(Computed(bStored[s1].conv), 2)

Succeeded == Fetching(currentStrategy, hImages) \ (hFailed \cup hBlank)

\* C11: processConversationImages returns files exactly when the strategy
\* is separate_files and some image was processed successfully, one file per
\* such image with its payload and file name; it returns metadata exactly
\* when it returns files, so never under embed_base64 or text_marker, nor
\* under separate_files when every image failed.
C11_FilesAndMetadataIff ==
    hpc = "returned" =>
       /\ Len(hResult.files) > 0
             <=> (currentStrategy = "separate_files" /\ Succeeded # {})
       /\ currentStrategy = "separate_files" =>
             /\ Len(hResult.files) = Cardinality(Succeeded)
             /\ \A i \in Succeeded :
                   /\ HasData(hResult.processedImages[i])
                   /\ hResult.processedImages[i].fileName # NoFileName
                   /\ \E f \in DOMAIN hResult.files :
                         hResult.files[f].path = hResult.processedImages[i].content
       /\ hResult.metadata.present <=> Len(hResult.files) > 0

\* C11 witness: under separate_files one image failed and another one
\* succeeded, and the call returned one file and the metadata.
C11_Witness ==
    /\ hpc = "returned"
    /\ currentStrategy = "separate_files"
    /\ hFailed # {}
    /\ Len(hResult.files) = 1
    /\ hResult.metadata.present

\* Under separate_files every image failed and the call returned neither
\* files nor metadata.
C11_WitnessAllFailed ==
    /\ hpc = "returned"
    /\ currentStrategy = "separate_files"
    /\ Len(hImages) > 0
    /\ hFailed = DOMAIN hImages
    /\ hResult.files = <<>>
    /\ ~hResult.metadata.present

\* C12: an export refused because no conversation has been started alerts
\* once and returns false, and the refusal fetches no conversation, leaves
\* the global image handler as it was, extracts, processes and renders
\* nothing and downloads nothing; nothing follows a refusal, and an export
\* that was not refused never alerts.
C12_RefusalDoesNothingElse ==
    /\ [](pc = "refused" =>
            /\ alerts = 1
            /\ exportResult = "false"
            /\ conversation = <<>>
            /\ images = <<>> /\ processedImages = <<>> /\ rendered = <<>>
            /\ downloads = <<>>)
    /\ [](pc # "refused" => alerts = 0 /\ exportResult # "false")
    /\ [][pc' = "refused" =>
            /\ globalImageHandler' = globalImageHandler
            /\ imageHandlingStrategy' = imageHandlingStrategy
            /\ imageHandler' = imageHandler
            /\ conversation' = conversation
            /\ downloads' = downloads]_vars

\* C12 witness: an HTML export was refused.
C12_Witness ==
    /\ pc = "refused"
    /\ format = "html"
    /\ exportResult = "false"
    /\ globalImageHandler = "null"

\* The positions of the extracted images that come from node n.
ImagesOf(n) == { i \in DOMAIN images : images[i].context.messageId = n }

\* The tag of the entries resp. parts that hold the images of a message.
ImageTagOf(node) ==
    IF node.content_type = "execution_output" THEN "image"
    ELSE "image_asset_pointer"

\* The entries resp. parts of a message that are tagged as images.
Tagged(node) == SelectSeq(node.items, LAMBDA m : m.tag = ImageTagOf(node))

\* C13: the extracted images are in node order; each comes from a node with
\* message and content whose content is execution_output or multimodal_text,
\* and is an entry tagged image resp. a part tagged image_asset_pointer of
\* that message, in list order; its imageIndex is the number of images
\* extracted before it from the same message.
C13_ExtractionOrderAndIndex ==
    pc \notin {"idle", "refused", "fetched"} =>
       /\ \A i, j \in DOMAIN images :
             i < j => images[i].context.messageId <= images[j].context.messageId
       /\ \A i \in DOMAIN images :
             LET n == images[i].context.messageId
             IN /\ n \in DOMAIN conversation
                /\ conversation[n].hasMessage /\ conversation[n].hasContent
                /\ conversation[n].content_type
                      \in {"execution_output", "multimodal_text"}
                /\ images[i].context.contentType
                      = IF conversation[n].content_type = "execution_output"
                        THEN "image_url" ELSE "multimodal_text"
                /\ images[i].context.imageIndex
                      = Cardinality({ e \in ImagesOf(n) : e < i })
                /\ images[i].context.originalUrl = images[i].url
       /\ \A n \in DOMAIN conversation :
             LET tagged == Tagged(conversation[n])
                 first == IF ImagesOf(n) = {} THEN 0
                          ELSE CHOOSE i \in ImagesOf(n) :
                                  \A e \in ImagesOf(n) : i <= e
             IN \E pos \in [1..Cardinality(ImagesOf(n)) -> DOMAIN tagged] :
                   /\ \A k \in DOMAIN pos :
                         images[first + k - 1].url = tagged[pos[k]].ref
                   /\ \A k, l \in DOMAIN pos : k < l => pos[k] < pos[l]

\* C13 witness: the third extracted image is the first one of the second
\* message, which has an image entry without locator before it, and has
\* imageIndex 0; the second one has imageIndex 1.
C13_Witness ==
    /\ pc = "done"
    /\ Len(images) = 3
    /\ images[2].context.imageIndex = 1
    /\ images[3].context.imageIndex = 0
    /\ images[3].context.messageId = 2
    /\ ~Truthy(conversation[2].items[1].ref)

\* The postProcess calls made for an assistant message.
AssistantCalls ==
    IF tpc = "done" /\ tMessage.role = "assistant" THEN DOMAIN tCalls ELSE {}

\* The math lines of a text: body and form.
MathOf(text) ==
    LET math == SelectSeq(text, LAMBDA seg : seg.k = "math")
    IN [i \in DOMAIN math |-> [n |-> math[i].n, form |-> math[i].form]]

\* C14: for assistant text with a math span and without a fenced code block
\* the reformatter returns, in both formats, the math spans of its input in
\* their order with the same content, and no sentinel is left in the text or
\* replaced by anything but a span.
C14_MathSpansUnchanged ==
    \A c \in AssistantCalls :
       LET call == tCalls[c]
       IN (~isCodeBlock(call.input)
           /\ \E i \in DOMAIN call.input : LatexRegex(call.input[i])) =>
             /\ MathOf(call.output) = MathOf(call.input)
             /\ \A i \in DOMAIN call.output :
                   call.output[i].k \notin {"sentinel", "undefined"}

\* C15: for assistant text with a fenced code block the reformatter returns
\* its input unchanged.
C15_FencedTextUnchanged ==
    \A c \in AssistantCalls :
       isCodeBlock(tCalls[c].footnoted) => tCalls[c].output = tCalls[c].footnoted

\* The positions of the citation markers with a matching citation.
Cited(text) ==
    { i \in DOMAIN text :
        /\ text[i].k = "marker"
        /\ \E c \in DOMAIN tCitations : tCitations[c].idx = text[i].n }

\* The title of the definition line for index n.
TitleOf(n) ==
    LET first == CHOOSE c \in DOMAIN tCitations :
                    /\ tCitations[c].idx = n
                    /\ \A e \in 1..(c - 1) : tCitations[e].idx # n
    IN IF tCitations[first].title = "" THEN "No title"
       ELSE tCitations[first].title

\* C16: in Markdown export a marker with index n and a matching citation is
\* replaced in place by [^n] and a line [^n]: title follows the message body;
\* a marker without matching citation stays and gets no definition line.
C16_FootNotesMarkdown ==
    \A c \in AssistantCalls :
       LET input == tCalls[c].input
           output == tCalls[c].output
           body == Len(input)
       IN (tFormat = "markdown" /\ tCalls[c].piece = "text") =>
             /\ Len(output) = body + 1 + Cardinality(Cited(input))
             /\ \A i \in DOMAIN input :
                   input[i].k = "marker" =>
                      IF i \in Cited(input)
                      THEN /\ output[i] = FootNoteRef(input[i].n)
                           /\ \E j \in (body + 1)..Len(output) :
                                 output[j] = FootNoteDef(input[i].n,
                                                         TitleOf(input[i].n))
                      ELSE /\ output[i] = input[i]
                           /\ \A j \in DOMAIN output :
                                 ~(output[j].k = "def" /\ output[j].n = input[i].n)
             /\ \A j \in (body + 1)..Len(output) :
                   output[j].k \in {"break", "def"}

\* C16 witness: a text with a cited marker 3 and an uncited marker 5 was
\* rewritten to [^3], the marker 5 and the line [^3]: SourceName.
C16_Witness ==
    /\ tpc = "done" /\ tFormat = "markdown" /\ tMessage.role = "assistant"
    /\ tText = << Marker(3), Marker(5) >>
    /\ Len(tCalls) = 1
    /\ tCalls[1].output
          = << FootNoteRef(3), Marker(5), Break, FootNoteDef(3, "SourceName") >>

\* C17: in HTML export the footnote rewrite returns its input without the
\* markers that have a matching citation, everything else in place, and
\* adds nothing.
C17_FootNotesHtml ==
    \A c \in AssistantCalls :
       LET input == tCalls[c].input
           output == tCalls[c].footnoted
           kept == DOMAIN input \ Cited(input)
       IN tFormat = "html" =>
             /\ Len(output) = Cardinality(kept)
             /\ \A i \in kept :
                   output[Cardinality({ e \in kept : e <= i })] = input[i]

\* C17 witness: the cited marker 3 was deleted and the uncited marker 5 kept.
C17_Witness ==
    /\ tpc = "done" /\ tFormat = "html" /\ tMessage.role = "assistant"
    /\ tText = << Marker(5), Marker(3) >>
    /\ tCitations # <<>>
    /\ Len(tCalls) = 1
    /\ tCalls[1].footnoted = << Marker(5) >>

\* C18: in HTML export the text of a message whose author is not the
\* assistant goes through the escaping pass and not the reformatter, so
\* none of & < > " ' is left in it; the text of an assistant message goes
\* through the reformatter and not the escaping pass.
C18_NonAssistantEscaped ==
    (tpc = "done" /\ tFormat = "html") =>
       \A c \in DOMAIN tCalls :
          IF tMessage.role = "assistant"
          THEN tCalls[c].steps = << "transformFootNotes", "reformat" >>
          ELSE /\ tCalls[c].steps = << "escapeHtml" >>
               /\ \A i \in DOMAIN tCalls[c].output :
                     ~(tCalls[c].output[i].k = "char"
                       /\ tCalls[c].output[i].form = "raw")

\* C19: transformContent hands to postProcess only text content and the
\* string parts of multimodal_text content, and nothing of code,
\* tether_quote or tether_browsing_display content.
C19_PostProcessScope ==
    tpc = "done" =>
       /\ \A c \in DOMAIN tCalls : tCalls[c].piece \in {"text", "string"}
       /\ tMessage.content_type
             \in {"code", "tether_quote", "tether_browsing_display"} =>
                tCalls = <<>>

\* The marker text the text_marker strategy is configured with.
ConfiguredMarker ==
    IF customMarker = "" THEN "[Image Omitted]" ELSE customMarker

\* The images the text_marker strategy has processed: the settled positions
\* whose url is a string.
Marked ==
    { i \in DOMAIN slots : /\ currentStrategy = "text_marker"
                           /\ slots[i] # Pending
                           /\ ~getMimeTypeThrows(hImages[i].url) }

C21_IdIsFunctionOfContext ==
    spc = "done" => sCalls[1].result.id = sCalls[2].result.id

\* The prefix of the file name of an image by the author: chatgpt-response,
\* user-upload, tool or tool-<name>.
RolePrefix(role, name) ==
    CASE role = "assistant" -> << "chatgpt-response" >>
      [] role = "user" -> << "user-upload" >>
      [] role = "tool" ->
            IF name = <<>> THEN << "tool" >>
            ELSE << "tool-" >> \o toLowerCase(ReplaceReservedAndSpaces(name))

\* The calls made under separate_files for an image with a string url by an
\* assistant, user or tool author.
SeparateFilesCalls ==
    { c \in DOMAIN sCalls :
        /\ sCalls[c].strategy = "separate_files"
        /\ ~getMimeTypeThrows(sImage.url)
        /\ sImage.context.role \in {"assistant", "user", "tool"} }

\* C22: under separate_files an image that loads gets the file name
\* <prefix>-<imageIndex>.<ext>, sanitized and in lower case, with the prefix
\* of its author, and the content images/<that file name>; an image that
\* fails gets no file name.
C22_FileNameOfSeparateFiles ==
    \A c \in SeparateFilesCalls :
       LET result == sCalls[c].result
           context == sImage.context
       IN IF sCalls[c].ok
          THEN /\ result.fileName
                     = ImageFileName(RolePrefix(context.role, context.name),
                                     context.imageIndex,
                                     Extension(getMimeType(sImage.url)))
               /\ result.content = createImageRelativePath(result.fileName)
          ELSE result.fileName = NoFileName

\* The positions of the entries resp. parts of a message the extractor of
\* the format takes an image from.
ExtractedPositions(fmt, node) ==
    { j \in DOMAIN node.items :
        /\ node.items[j].tag = ImageTagOf(node)
        /\ IF fmt = "markdown" \/ node.content_type = "execution_output"
           THEN Truthy(node.items[j].ref)
           ELSE HasKey(node.items[j].ref) }

\* C23: for every rendered message the image count the running index
\* advances by is the number of images extracted from the message, and the
\* local index the renderer gives an entry or part an image was extracted
\* from is the imageIndex the extractor gave that image.
C23_CountAndLocalIndexMatchExtractor ==
    pc \in {"converted", "done"} =>
       \A r \in DOMAIN rendered :
          LET n == rendered[r].node
              node == conversation[n]
          IN /\ CountFor(format, node) = Cardinality(ImagesOf(n))
             /\ (node.hasList
                 /\ node.content_type \in {"execution_output", "multimodal_text"}) =>
                   \A j \in ExtractedPositions(format, node) :
                      ImagesBefore(node.items, j, ImageTagOf(node))
                         = Cardinality({ l \in ExtractedPositions(format, node) :
                                           l < j })

\* C24: an export processes the images of every one of its conversations
\* with the strategy it read from the settings when it started, also when
\* another export under another setting starts while it is suspended and
\* replaces the global handler: every document a batch export stored was
\* converted with the batch's strategy, and the handler the conversion of a
\* single export took has the strategy that export read.
C24_ExportUsesItsOwnStrategy ==
    /\ \A s \in DOMAIN bStored : bStored[s].strategy \in {"", bStrategy}
    /\ pc \in {"awaiting", "converted", "done"} =>
          imageHandler = imageHandlingStrategy

\* C25: under separate_files the successfully processed images of one
\* conversation have pairwise distinct file names, and the files returned
\* for the archive have pairwise distinct paths, also when two messages by
\* the same role hold an image each.
C25_FileNamesDistinct ==
    (pc \in {"converted", "done"} /\ imageHandler = "separate_files") =>
       /\ \A i, j \in DOMAIN processedImages :
             (i # j /\ processedImages[i].fileName # NoFileName
                    /\ processedImages[j].fileName # NoFileName)
                => processedImages[i].fileName # processedImages[j].fileName
       /\ \A i, j \in DOMAIN exportFiles :
             i # j => exportFiles[i].path # exportFiles[j].path

\* The paths 'images/<file>' a document refers to.
ReferencedPaths(document) ==
    { tok.content :
        tok \in { token \in UNION { ImageTokens(document[r].fragment) :
                                     r \in DOMAIN document } :
                    token.content.kind = "path" } }

\* C26: under separate_files every path 'images/<file>' a produced document
\* refers to is a file of the archive the document is delivered in: the
\* files of the zip a single export downloaded, the entries of the archive
\* a batch export downloaded.
C26_ReferencedImagesAreInArchive ==
    /\ pc = "done" =>
          \A path \in ReferencedPaths(rendered) :
             /\ downloads[1].kind = "zip"
             /\ \E k \in DOMAIN downloads[1].files :
                   downloads[1].files[k].path = path
    /\ bpc = "done" =>
          \A s \in DOMAIN bStored :
             \A path \in ReferencedPaths(bStored[s].document) :
                \E entry \in bDownloads[1].entries : entry.fileName = path

\* C27: in every state of a DefaultImageHandler, after construction and
\* after any sequence of setStrategy calls, also one that throws for a
\* strategy that is none of the three, getStrategy() is the name of the
\* strategy of getProcessor().
C27_StrategyIsProcessorName == getStrategy = getProcessor

Started == wpc \in {"check_timer", "callback_timer", "done"}

\* C29: once the page has loaded waitForReactHydration invokes its callback
\* exactly once: 500 ms after the first check that sees the hydration
\* indicators, or at once at the first check at which more than maxWaitTime
\* has elapsed or which is the 50th; no more than 50 checks are made, and
\* none after the callback has been invoked or scheduled.
C29_CallbackExactlyOnce ==
    /\ [](/\ Len(wInvoked) <= 1
          /\ checkCount <= maxChecks
          /\ wpc = "done" <=> Len(wInvoked) = 1
          /\ wpc = "callback_timer" => wSeen
          /\ \A k \in DOMAIN wInvoked :
                /\ wInvoked[k].check = checkCount
                /\ \/ wInvoked[k].delay = 5 /\ wSeen
                   \/ /\ wInvoked[k].delay = 0
                      /\ ~wSeen
                      /\ elapsed > maxWaitTime \/ checkCount = maxChecks)
    /\ [][/\ wpc \in {"callback_timer", "done"} => checkCount' = checkCount
          /\ (checkCount' # checkCount /\ wSeen') => wpc' = "callback_timer"
          /\ (checkCount' # checkCount /\ checkCount' # 0 /\ ~wSeen'
                /\ (elapsed' > maxWaitTime \/ checkCount' >= maxChecks))
                => (wpc' = "done" /\ Len(wInvoked') = 1)]_vars
    /\ (Started ~> (wpc = "done" /\ Len(wInvoked) = 1))
    /\ [](wpc = "done" => [](wpc = "done" /\ Len(wInvoked) = 1))

\* C29 witness: the indicators were never seen and the callback was invoked
\* at the 50th check, before maxWaitTime had elapsed.
C29_Witness ==
    /\ wpc = "done"
    /\ checkCount = maxChecks
    /\ elapsed <= maxWaitTime
    /\ Len(wInvoked) = 1
    /\ wInvoked[1].delay = 0

\* C30: for retryCount >= 1 the promise of safeInject resolves exactly once:
\* with true at the first attempt that finds the target and inserts without
\* throwing, with false when retryCount attempts have all failed; at most
\* retryCount attempts are made and none after the promise has resolved.
C30_ResolvesExactlyOnce ==
    /\ [](/\ Len(iResolved) <= 1
          /\ attempts <= retryCount
          /\ attempts = Len(iOutcomes)
          /\ ipc = "resolved" <=> Len(iResolved) = 1
          /\ \A k \in DOMAIN iOutcomes :
                iOutcomes[k] = "inserted" =>
                   k = attempts /\ iResolved = << TRUE >>
          /\ iResolved = << FALSE >> =>
                /\ attempts = retryCount
                /\ \A k \in DOMAIN iOutcomes : iOutcomes[k] # "inserted"
          /\ iResolved = << TRUE >> => iOutcomes[attempts] = "inserted")
    /\ [][ipc = "resolved" => attempts' = attempts /\ iResolved' = iResolved]_vars
    /\ (ipc = "timer" ~> ipc = "resolved")

\* C30 witness: the target was missing at the first attempt, the insertion
\* threw at the second, and the third resolved the promise with true.
C30_Witness ==
    /\ ipc = "resolved"
    /\ retryCount = 3
    /\ iOutcomes = << "missing", "threw", "inserted" >>
    /\ iResolved = << TRUE >>

====
